---- MODULE Spec2Model ----
(***************************************************************************)
(* Change tracking and synchronization of a crowdflower Job resource:      *)
(* crowdflower/base.py (Attribute, RoAttribute, WoAttribute, Base),        *)
(* crowdflower/job.py (Job.update, Job._send_changes) and                  *)
(* crowdflower/client.py (Client.update_job, Client._make_cf_attrs,        *)
(* Client.call), and the other operations of a Job: item access, commands  *)
(* and the cached relations units and judgment_aggregates.                 *)
(*                                                                         *)
(* A dict is a function whose DOMAIN is its key set.  Values are strings;  *)
(* "" is the falsy value.  update() is followed statement by statement     *)
(* through pc: the remote call is a request in flight answered by the      *)
(* server, and lines 91 and 92 of base.py are separate steps.              *)
(***************************************************************************)
EXTENDS Integers, Sequences, FiniteSets, TLC

VARIABLES _json, _changes, _client, pc, request, reply, old, last

\* Instance attributes of the Job besides the three of Base.__init__: the
\* relation caches and whatever else is assigned on the instance.
VARIABLES _units, _judgments_aggregates, _dict

\* One call of Client._make_cf_attrs: its argument and its result.
VARIABLE flatten

\* The dict objects behind self._changes and behind the argument handed to
\* _send_changes.
VARIABLE alias

\* Two callers inside one relation property of the same Job instance.
VARIABLE race

\* Two resource instances and the dict objects they hold.
VARIABLE pair

\* One listing being iterated: the pages requested and the items yielded.
VARIABLE paging

\* One Promise instance.
VARIABLE promise

\* One call of Client.upload_job_file.
VARIABLE upload

\* One JudgmentAggregate instance.
VARIABLE aggr

\* The tags of one Job: the list the server holds and the cache _tags.
VARIABLE tags

\* What the operations on one Job instance leave alone.
more == <<race, pair, paging, promise, upload, aggr, tags>>

\* What the operations on fields and update() leave alone.
ext == <<_units, _judgments_aggregates, _dict, flatten, alias, more>>

vars == <<_json, _changes, _client, pc, request, reply, old, last,
          _units, _judgments_aggregates, _dict, flatten, alias,
          race, pair, paging, promise, upload, aggr, tags>>

----------------------------------------------------------------------------
(* Bounds of the model: the values and mappings the inputs are drawn from. *)

\* Number of distinct non-empty strings a caller writes to a field.
MaxWritten == 1

\* Number of distinct non-empty strings the server puts in a response.
MaxReplied == 1

Written == <<"w1", "w2", "w3">>

Replied == <<"r1", "r2", "r3">>

\* Values assigned to fields by the caller ("" is the empty string).
WriteValues == {""} \cup {Written[i] : i \in 1..MaxWritten}

\* Values of the fields of a response body.
ReplyValues == {Replied[i] : i \in 1..MaxReplied}

\* Values of the fields of the data a resource is constructed from.
BaseValues == {"", "b"}

----------------------------------------------------------------------------
(* Field declarations of Job (a representative of each access mode, and    *)
(* the three attributes Job.update requires).                              *)

RoFields == {"id"}

RwFields == {"title", "instructions", "cml"}

WoFields == {"uri"}

Fields == RoFields \cup RwFields \cup WoFields

RequiredFields == {"title", "instructions", "cml"}

EmptyDict == [k \in {} |-> ""]

NoName == "-"

\* dict[key] = value on a copy
DictSet(dict_, key, value) == (key :> value) @@ dict_

\* dict.update(other) on a copy
DictUpdate(dict_, other) == other @@ dict_

----------------------------------------------------------------------------
(* Outcomes of an operation: a returned value or a raised exception.       *)

Returned(value) == [kind |-> "value", name |-> NoName, val |-> value]

Raised(exc, name) == [kind |-> exc, name |-> name, val |-> ""]

Done == [kind |-> "ok", name |-> NoName, val |-> ""]

----------------------------------------------------------------------------
(* Field descriptors (base.py).                                            *)

\* Attribute.__get__: instance._changes.get(name, instance._json[name]).
\* The default instance._json[name] is evaluated before .get is called.
Attribute_get(json, changes, name) ==
    IF name \notin DOMAIN json
      THEN Raised("KeyError", name)
      ELSE IF name \in DOMAIN changes
             THEN Returned(changes[name])
             ELSE Returned(json[name])

\* WoAttribute without its __get__: the read falls to Attribute.__get__.
WoAttribute_get_inherited(json, changes, name) ==
    Attribute_get(json, changes, name)

\* WoAttribute.__get__
WoAttribute_get(json, changes, name) == Raised("AttributeError", name)

\* Attribute.__set__ (inherited by WoAttribute)
Attribute_set(changes, name, value) ==
    [changes |-> DictSet(changes, name, value), res |-> Done]

\* RoAttribute without its __set__: the write falls to Attribute.__set__.
RoAttribute_set_inherited(changes, name, value) ==
    Attribute_set(changes, name, value)

\* RoAttribute.__set__
RoAttribute_set(changes, name, value) ==
    [changes |-> changes, res |-> Raised("AttributeError", name)]

\* getattr(instance, name) for a declared name
Getattr(json, changes, name) ==
    IF name \in WoFields
      THEN WoAttribute_get(json, changes, name)
      ELSE Attribute_get(json, changes, name)

\* setattr(instance, name, value) for a declared name
Setattr(changes, name, value) ==
    IF name \in RoFields
      THEN RoAttribute_set(changes, name, value)
      ELSE Attribute_set(changes, name, value)

----------------------------------------------------------------------------
(* Client._recursive_items and Client._make_cf_attrs (client.py), on       *)
(* mappings whose values are not dicts.                                    *)

RECURSIVE Join(_, _)
\* sep.join(p)
Join(sep, p) ==
    IF p = <<>> THEN ""
    ELSE IF Len(p) = 1 THEN p[1]
    ELSE p[1] \o sep \o Join(sep, Tail(p))

\* The (path, value) pairs generated for dict_ below path.
RecursiveItems(dict_, path) ==
    {<<Append(path, k), dict_[k]>> : k \in DOMAIN dict_}

\* '{}[{{}}]'.format(type_).format(']['.join(p))
CfName(type_, p) == type_ \o "[" \o Join("][", p) \o "]"

MakeCfAttrs(type_, attrs) ==
    LET items == RecursiveItems(attrs, <<>>)
    IN  [n \in {CfName(type_, it[1]) : it \in items} |->
            (CHOOSE it \in items : CfName(type_, it[1]) = n)[2]]

----------------------------------------------------------------------------
(* The remote call: request in flight, what the server answers, and what   *)
(* Client.call makes of the answer.                                        *)

NoRequest == [method |-> "-", id |-> "-", data |-> EmptyDict]

NoReply == [kind |-> "-", body |-> EmptyDict]

NoOld == [json |-> EmptyDict, changes |-> EmptyDict]

\* Key sets of the JSON bodies the server answers a job update with: job
\* attributes, or an error report.
ReplyDomains == {{"id"}, {"title", "id"}, {"title", "uri"}, {"error"}, {"errors"}}

ReplyBodies == UNION {[D -> ReplyValues] : D \in ReplyDomains}

\* requests.request raises; raise_for_status raises; resp.json() raises.
FailureKinds == {"transport", "status", "badjson"}

Replies == {[kind |-> k, body |-> EmptyDict] : k \in FailureKinds}
           \cup {[kind |-> "json", body |-> b] : b \in ReplyBodies}

\* Client.call without the test of the 'errors' key.
Client_call_no_errors_key(rep) ==
    CASE rep.kind \in {"transport", "status"} ->
            [res |-> Raised("ApiError", NoName), body |-> EmptyDict]
      [] rep.kind = "badjson" ->
            [res |-> Raised("ValueError", NoName), body |-> EmptyDict]
      [] "error" \in DOMAIN rep.body ->
            [res |-> Raised("ApiError", NoName), body |-> EmptyDict]
      [] OTHER ->
            [res |-> Done, body |-> rep.body]

\* Client.call after the request was made: the exception raised or the
\* parsed body returned.
Client_call(rep) ==
    CASE rep.kind \in {"transport", "status"} ->
            [res |-> Raised("ApiError", NoName), body |-> EmptyDict]
      [] rep.kind = "badjson" ->
            [res |-> Raised("ValueError", NoName), body |-> EmptyDict]
      [] "error" \in DOMAIN rep.body ->
            [res |-> Raised("ApiError", NoName), body |-> EmptyDict]
      [] "errors" \in DOMAIN rep.body ->
            [res |-> Raised("ApiError", NoName), body |-> EmptyDict]
      [] OTHER ->
            [res |-> Done, body |-> rep.body]

\* Client.update_job: the call jobs[job_id](_make_cf_attrs('job', attrs),
\* method='put')
Client_update_job(job_id, attrs) ==
    [method |-> "put", id |-> job_id, data |-> MakeCfAttrs("job", attrs)]

----------------------------------------------------------------------------
(* Job.update and Base.update.                                             *)

\* Iteration orders of the set {'title', 'instructions', 'cml'}.
Orders ==
    {o \in [1..3 -> RequiredFields] : \A i, j \in 1..3 : o[i] = o[j] => i = j}

RECURSIVE CheckRequired_baseline(_, _, _)
\* The loop testing the value of the baseline instead of the attribute.
CheckRequired_baseline(json, changes, order) ==
    IF order = <<>> THEN Done
    ELSE IF Head(order) \notin DOMAIN json THEN Raised("KeyError", Head(order))
    ELSE IF json[Head(order)] = "" THEN Raised("RuntimeError", Head(order))
    ELSE CheckRequired_baseline(json, changes, Tail(order))

RECURSIVE CheckRequired(_, _, _)
\* The loop of Job.update over the attributes in the given order: the first
\* exception raised, or Done when the loop completes.
CheckRequired(json, changes, order) ==
    IF order = <<>> THEN Done
    ELSE LET r == Getattr(json, changes, Head(order))
         IN  IF r.kind # "value" THEN r
             ELSE IF r.val = "" THEN Raised("RuntimeError", Head(order))
             ELSE CheckRequired(json, changes, Tail(order))

\* _send_changes handing the baseline to update_job instead of the changes.
Job_send_changes_baseline(json, changes, client) ==
    IF client = "None"
      THEN [res |-> Raised("AttributeError", "update_job"), request |-> NoRequest]
      ELSE LET i == Getattr(json, changes, "id")
           IN  IF i.kind # "value"
                 THEN [res |-> i, request |-> NoRequest]
                 ELSE [res |-> Done, request |-> Client_update_job(i.val, json)]

\* _send_changes reading the id with a default: self._json.get('id', '-').
Job_send_changes_default_id(json, changes, client) ==
    IF client = "None"
      THEN [res |-> Raised("AttributeError", "update_job"), request |-> NoRequest]
      ELSE [res |-> Done,
            request |-> Client_update_job(
                IF "id" \in DOMAIN json THEN json["id"] ELSE "-", changes)]

\* Job._send_changes up to the request: self._client.update_job is looked up,
\* then self.id is read, then the call is made.
Job_send_changes(json, changes, client) ==
    IF client = "None"
      THEN [res |-> Raised("AttributeError", "update_job"), request |-> NoRequest]
      ELSE LET i == Getattr(json, changes, "id")
           IN  IF i.kind # "value"
                 THEN [res |-> i, request |-> NoRequest]
                 ELSE [res |-> Done, request |-> Client_update_job(i.val, changes)]

\* A merge in which the baseline's value wins over the reply's.
Base_update_setdefault(json, body) == DictUpdate(body, json)

\* The baseline replaced by the reply.
Base_update_replace(json, body) == body

\* Base.update line 91: self._json.update(reply)
Base_update_merge(json, body) == DictUpdate(json, body)

\* Line 92 missing: the overlay is kept.
Base_update_keep(changes) == changes

\* Base.update line 92: self._changes = {}
Base_update_clear(changes) == EmptyDict

----------------------------------------------------------------------------
(* State machine.                                                          *)

\* Key sets of the data a Job is constructed from: Job(client=c),
\* Job(id=..., client=c) as in Client.unit_from_json, a job without id, and
\* a job as the service returns it.
BaseDomains == {{}, {"id"}, RequiredFields, RequiredFields \cup {"id"}}

\* An id is never the empty string.
InitData ==
    {d \in UNION {[D -> BaseValues] : D \in BaseDomains} :
        "id" \in DOMAIN d => d["id"] # ""}

\* A relation cache attribute that is not set on the instance.
Unset == [set |-> FALSE, list |-> <<>>]

\* No call of _make_cf_attrs under observation.
NoFlatten == [attrs |-> <<>>, out |-> <<>>, done |-> FALSE]

\* No dict object under observation.
NoAlias == [heap |-> <<>>, changes |-> 0, handed |-> 0, sent |-> EmptyDict]

\* No caller is inside a relation property.
NoRace == [on |-> FALSE]

\* No second instance under observation.
NoPair == [on |-> FALSE]

\* No listing is being iterated.
NoPaging == [on |-> FALSE]

\* No Promise under observation.
NoPromise == [on |-> FALSE]

\* No upload under observation.
NoUpload == [on |-> FALSE]

\* No JudgmentAggregate under observation.
NoAggr == [on |-> FALSE]

\* No tags under observation.
NoTags == [on |-> FALSE]

\* Nothing but one Job instance is under observation.
NoMore ==
    /\ race = NoRace
    /\ pair = NoPair
    /\ paging = NoPaging
    /\ promise = NoPromise
    /\ upload = NoUpload
    /\ aggr = NoAggr
    /\ tags = NoTags

\* A freshly constructed instance has no attribute besides _client, _json and
\* _changes.
FreshInstance ==
    /\ _units = Unset
    /\ _judgments_aggregates = Unset
    /\ _dict = EmptyDict

\* No operation has run yet.
Idle ==
    /\ pc = "idle"
    /\ request = NoRequest
    /\ reply = NoReply
    /\ old = NoOld
    /\ last = [op |-> "init", name |-> NoName, arg |-> "", res |-> Done]

\* Base.__init__ / Job.__init__: the data the resource is constructed from.
Init ==
    /\ _json \in InitData
    /\ _changes = EmptyDict
    /\ _client \in {"None", "client"}
    /\ Idle
    /\ FreshInstance
    /\ flatten = NoFlatten
    /\ alias = NoAlias
    /\ NoMore

Snapshot == [json |-> _json, changes |-> _changes]

\* instance.name = value
SetAttr(name, value) ==
    /\ pc = "idle"
    /\ LET r == Setattr(_changes, name, value)
       IN  /\ _changes' = r.changes
           /\ last' = [op |-> "set", name |-> name, arg |-> value, res |-> r.res]
    /\ old' = Snapshot
    /\ request' = NoRequest
    /\ reply' = NoReply
    /\ UNCHANGED <<_json, _client, pc>>
    /\ UNCHANGED ext

\* instance.name
GetAttr(name) ==
    /\ pc = "idle"
    /\ last' = [op |-> "get", name |-> name, arg |-> "",
                res |-> Getattr(_json, _changes, name)]
    /\ old' = Snapshot
    /\ request' = NoRequest
    /\ reply' = NoReply
    /\ UNCHANGED <<_json, _changes, _client, pc>>
    /\ UNCHANGED ext

UpdateRaises(res) ==
    /\ last' = [op |-> "update", name |-> NoName, arg |-> "", res |-> res]
    /\ pc' = "idle"
    /\ UNCHANGED <<_json, _changes, _client>>
    /\ UNCHANGED ext

\* job.update() up to the remote call
JobUpdate ==
    /\ pc = "idle"
    /\ old' = Snapshot
    /\ reply' = NoReply
    /\ \E order \in Orders :
         LET v == CheckRequired(_json, _changes, order)
             s == Job_send_changes(_json, _changes, _client)
         IN  IF v.kind # "ok"
               THEN UpdateRaises(v) /\ request' = NoRequest
               ELSE IF s.res.kind # "ok"
                 THEN UpdateRaises(s.res) /\ request' = NoRequest
                 ELSE /\ request' = s.request
                      /\ pc' = "call"
                      /\ UNCHANGED <<_json, _changes, _client, last>>
                      /\ UNCHANGED ext

\* The remote service (or the transport) answers the request.
ServerReply ==
    /\ pc = "call"
    /\ reply' \in Replies
    /\ pc' = "reply"
    /\ UNCHANGED <<_json, _changes, _client, request, old, last>>
    /\ UNCHANGED ext

\* Client.call returns or raises into Base.update; line 91 merges the reply.
UpdateMerge ==
    /\ pc = "reply"
    /\ LET r == Client_call(reply)
       IN  IF r.res.kind # "ok"
             THEN UpdateRaises(r.res)
             ELSE /\ _json' = Base_update_merge(_json, r.body)
                  /\ pc' = "merged"
                  /\ UNCHANGED <<_changes, _client, last>>
                  /\ UNCHANGED ext
    /\ UNCHANGED <<request, reply, old>>

\* Base.update line 92, and update() returns.
UpdateClear ==
    /\ pc = "merged"
    /\ _changes' = Base_update_clear(_changes)
    /\ pc' = "idle"
    /\ last' = [op |-> "update", name |-> NoName, arg |-> "", res |-> Done]
    /\ UNCHANGED <<_json, _client, request, reply, old>>
    /\ UNCHANGED ext

Next ==
    \/ \E name \in Fields, value \in WriteValues : SetAttr(name, value)
    \/ \E name \in Fields : GetAttr(name)
    \/ JobUpdate
    \/ ServerReply
    \/ UpdateMerge
    \/ UpdateClear

Spec == Init /\ [][Next]_vars

----------------------------------------------------------------------------
(* Vocabulary of the properties.                                           *)

ReadableFields == RoFields \cup RwFields

\* The last operation was the write instance.name = value of a field of fs.
Wrote(fs) == pc = "idle" /\ last.op = "set" /\ last.name \in fs

\* update() has just ended, by returning or by raising.
UpdateEnded == pc = "idle" /\ last.op = "update"

UpdateReturned == UpdateEnded /\ last.res.kind = "ok"

\* The remote call of the update that just ended failed: the transport
\* raised, the status was not 2xx, or the body has an 'error' or 'errors' key.
RemoteFailed ==
    /\ UpdateEnded
    /\ \/ reply.kind \in {"transport", "status"}
       \/ reply.kind = "json" /\ DOMAIN reply.body \cap {"error", "errors"} # {}

\* Baseline and overlay are as they were when the last operation started.
Untouched == _json = old.json /\ _changes = old.changes

----------------------------------------------------------------------------
\* C1: for every read-write field f and value v, whatever the baseline and
\* the overlay were: after writing v to f, reading f returns v and the
\* overlay maps f to v.
C1_WriteThenRead ==
    Wrote(RwFields) =>
        /\ Getattr(_json, _changes, last.name) = Returned(last.arg)
        /\ last.name \in DOMAIN _changes
        /\ _changes[last.name] = last.arg

\* C2: for every read-only field f and every value, in every state a write
\* to f raises AttributeError naming f, and the write leaves baseline and
\* overlay as they were.
C2_ReadOnlyWriteFails ==
    /\ pc = "idle" =>
         \A f \in RoFields, v \in WriteValues :
            Setattr(_changes, f, v).res = Raised("AttributeError", f)
    /\ Wrote(RoFields) =>
         /\ last.res = Raised("AttributeError", last.name)
         /\ Untouched

\* A write to a read-only field was attempted while changes were pending.
C2_Witness ==
    /\ Wrote(RoFields)
    /\ last.res.kind = "AttributeError"
    /\ _changes # EmptyDict

\* C3: for every write-only field f and value v: after writing v to f the
\* overlay maps f to v, and every read of f raises AttributeError naming f,
\* before the write as after it.
C3_WriteOnly ==
    /\ \A f \in WoFields :
          Getattr(_json, _changes, f) = Raised("AttributeError", f)
    /\ Wrote(WoFields) =>
          /\ last.res.kind = "ok"
          /\ last.name \in DOMAIN _changes
          /\ _changes[last.name] = last.arg
    /\ (pc = "idle" /\ last.op = "get" /\ last.name \in WoFields) =>
          last.res = Raised("AttributeError", last.name)

\* A write-only field was read while a value written to it is pending and the
\* baseline holds a value under its name.
C3_Witness ==
    /\ pc = "idle" /\ last.op = "get" /\ last.name \in WoFields
    /\ last.name \in DOMAIN _changes
    /\ _changes[last.name] # ""
    /\ last.name \in DOMAIN _json

\* C4: in every state between operations, reading a readable field returns
\* the pending value of the overlay if there is one, and otherwise the
\* baseline value.
C4_ReadOverlayElseBaseline ==
    pc = "idle" =>
        \A f \in ReadableFields :
            /\ f \in DOMAIN _changes =>
                  Getattr(_json, _changes, f) = Returned(_changes[f])
            /\ (f \notin DOMAIN _changes /\ f \in DOMAIN _json) =>
                  Getattr(_json, _changes, f) = Returned(_json[f])

\* C5 as stated: right after a successful update() the overlay is empty and
\* reading any field of the response returns the response's value.
C5_ReadsEveryResponseField ==
    UpdateReturned =>
        /\ _changes = EmptyDict
        /\ \A f \in DOMAIN reply.body :
              Getattr(_json, _changes, f) = Returned(reply.body[f])

\* C5: right after a successful update() the overlay is empty and reading
\* any readable (read-only or read-write) field of the response returns the
\* response's value.
C5_ReadsResponse ==
    UpdateReturned =>
        /\ _changes = EmptyDict
        /\ \A f \in DOMAIN reply.body \cap ReadableFields :
              Getattr(_json, _changes, f) = Returned(reply.body[f])

\* update() returned, the response holds a readable field that was pending
\* and in the baseline, with a value differing from both.
C5_Witness ==
    /\ UpdateReturned
    /\ \E f \in DOMAIN reply.body \cap ReadableFields :
          /\ f \in DOMAIN old.changes /\ old.changes[f] # reply.body[f]
          /\ f \in DOMAIN old.json /\ old.json[f] # reply.body[f]

\* C6 as stated: after a successful update() the baseline is exactly the
\* response.
C6_BaselineIsResponse == UpdateReturned => _json = reply.body

\* C6: a successful update() merges the response into the baseline: every
\* key of the response maps to the response's value, every other key of the
\* old baseline keeps its value, and there are no other keys.
C6_BaselineMerged ==
    UpdateReturned =>
        /\ DOMAIN _json = DOMAIN old.json \cup DOMAIN reply.body
        /\ \A f \in DOMAIN reply.body : _json[f] = reply.body[f]
        /\ \A f \in DOMAIN old.json \ DOMAIN reply.body : _json[f] = old.json[f]

\* update() returned and the old baseline holds a field the response lacks.
C6_Witness ==
    /\ UpdateReturned
    /\ DOMAIN old.json \ DOMAIN reply.body # {}
    /\ DOMAIN reply.body \ DOMAIN old.json # {}

\* C7: whenever update() ends, either the response has been merged into the
\* baseline and the overlay is empty (update() returned), or baseline and
\* overlay are both as before (update() raised).
C7_CommitAllOrNothing ==
    UpdateEnded =>
        IF last.res.kind = "ok"
          THEN /\ reply.kind = "json"
               /\ _json = DictUpdate(old.json, reply.body)
               /\ _changes = EmptyDict
          ELSE Untouched

\* update() returned with changes that were pending and a response that
\* changed the baseline.
C7_Witness ==
    /\ UpdateReturned
    /\ old.changes # EmptyDict
    /\ _json # old.json

\* C8: if the remote call of update() fails (the transport raises, the status
\* is not 2xx, or the body has an 'error' or 'errors' key), update() raises
\* ApiError, baseline and overlay are as before the call, and a retry sends
\* the same request.
C8_RemoteFailureLeavesState ==
    RemoteFailed =>
        /\ last.res.kind = "ApiError"
        /\ Untouched
        /\ Job_send_changes(_json, _changes, _client).request = request

\* The remote call failed while changes were pending.
C8_Witness ==
    /\ RemoteFailed
    /\ "errors" \in DOMAIN reply.body
    /\ request.data # EmptyDict

\* The effective value of a required field: the pending change over the
\* baseline.
HasEffective(st, f) == f \in DOMAIN st.changes \cup DOMAIN st.json

Effective(st, f) == IF f \in DOMAIN st.changes THEN st.changes[f] ELSE st.json[f]

\* The validation of Job.update raised: RuntimeError, or the KeyError of the
\* read of a required attribute.
ValidationRaised ==
    /\ UpdateEnded
    /\ last.res.kind \in {"RuntimeError", "KeyError"}
    /\ last.res.name \in RequiredFields

\* C9: Job.update() checks the effective values of title, instructions and
\* cml: if one of them is empty, update() raises RuntimeError, makes no
\* remote call and leaves baseline and overlay unchanged; if all three are
\* non-empty, validation passes.
C9_ValidatesEffectiveValues ==
    UpdateEnded =>
        /\ (\E f \in RequiredFields : HasEffective(old, f) /\ Effective(old, f) = "") =>
              /\ last.res.kind = "RuntimeError"
              /\ request = NoRequest
              /\ Untouched
        /\ (\A f \in RequiredFields : HasEffective(old, f) /\ Effective(old, f) # "") =>
              ~ValidationRaised

\* The required fields the loop of Job.update finds empty.
EmptyRequired(st) ==
    {f \in RequiredFields : Getattr(st.json, st.changes, f) = Returned("")}

\* The attributes the message of the raised exception names.
Names(res) == {res.name}

\* C10 as stated: the RuntimeError of update() names every empty required
\* field.
C10_NamesEveryEmptyField ==
    (UpdateEnded /\ last.res.kind = "RuntimeError") =>
        EmptyRequired(old) \subseteq Names(last.res)

\* C10: when several required fields are empty, the RuntimeError of update()
\* names one of them (the one the loop meets first), and no field that is
\* not empty.
C10_NamesOneEmptyField ==
    (UpdateEnded /\ last.res.kind = "RuntimeError") =>
        /\ Names(last.res) \subseteq EmptyRequired(old)
        /\ Cardinality(Names(last.res)) = 1

\* update() raised RuntimeError with all three required fields empty, one of
\* them emptied by a pending change.
C10_Witness ==
    /\ UpdateEnded /\ last.res.kind = "RuntimeError"
    /\ EmptyRequired(old) = RequiredFields
    /\ \E f \in RequiredFields : f \in DOMAIN old.changes /\ old.json[f] # ""

----------------------------------------------------------------------------
\* A required attribute is present: it has a non-empty value in the pending
\* changes or in the job's data.
Present(st, f) ==
    \/ f \in DOMAIN st.changes /\ st.changes[f] # ""
    \/ f \in DOMAIN st.json /\ st.json[f] # ""

\* C11: Job.update() raises RuntimeError exactly when some required attribute
\* is present neither in the pending changes nor in the job's data (its key
\* may be absent from the baseline altogether), and a missing required
\* attribute makes it raise no other kind of error.
C11_MissingRaisesRuntimeError ==
    UpdateEnded =>
        /\ last.res.kind = "RuntimeError" <=>
              (\E f \in RequiredFields : ~Present(old, f))
        /\ ~(last.res.kind = "KeyError" /\ last.res.name \in RequiredFields)

\* A second update() is running or has ended, the operation before it being
\* an update() that returned.
SecondUpdateCalled ==
    /\ pc \in {"call", "reply", "merged"}
    /\ last.op = "update" /\ last.res.kind = "ok"

\* C12 as stated: after a successful update(), a second update() with no
\* write in between performs no remote call.
C12_SecondUpdateNoCall == ~SecondUpdateCalled

\* C12: after a successful update(), a second update() with no write in
\* between is not a no-op: once validation passes it sends the remote update
\* again, as a PUT on the job's id with no parameter, the overlay staying
\* empty while the call is in flight.
C12_SecondUpdateSendsEmpty ==
    /\ UpdateReturned =>
          Job_send_changes(_json, _changes, _client) =
              [res |-> Done,
               request |-> [method |-> "put", id |-> _json["id"], data |-> EmptyDict]]
    /\ SecondUpdateCalled =>
          /\ request = [method |-> "put", id |-> old.json["id"], data |-> EmptyDict]
          /\ old.changes = EmptyDict
          /\ _changes = EmptyDict

\* The second update() has merged a response that changed the baseline.
C12_Witness ==
    /\ SecondUpdateCalled
    /\ pc = "merged"
    /\ _json # old.json

\* The job was constructed from title, instructions and cml only, the three
\* have non-empty pending values and the job is bound to a client.
NewJobFilled(st) ==
    /\ DOMAIN st.json = RequiredFields
    /\ \A f \in RequiredFields : f \in DOMAIN st.changes /\ st.changes[f] # ""
    /\ _client = "client"

\* C13 as stated: a Job whose baseline holds only title, instructions and cml
\* is synchronized by update() once the three are set: the remote update is
\* issued.
C13_NewJobSynchronizes ==
    (UpdateEnded /\ NewJobFilled(old)) => request # NoRequest

\* C13: a Job is synchronized by update() only if its baseline holds an id.
\* Without one, update() raises before any remote call (KeyError('id') when
\* validation passes and a client is bound) and changes nothing.  With one,
\* a returned update() has sent a PUT on that id, and afterwards the overlay
\* is empty and reading id returns the id of the response, if it has one.
C13_SynchronizesWithId ==
    /\ (UpdateEnded /\ "id" \notin DOMAIN old.json) =>
          /\ last.res.kind \in {"KeyError", "RuntimeError", "AttributeError"}
          /\ request = NoRequest
          /\ Untouched
    /\ (UpdateEnded /\ NewJobFilled(old)) => last.res = Raised("KeyError", "id")
    /\ UpdateReturned =>
          /\ "id" \in DOMAIN old.json
          /\ request.method = "put" /\ request.id = old.json["id"]
          /\ _changes = EmptyDict
          /\ "id" \in DOMAIN reply.body =>
                Getattr(_json, _changes, "id") = Returned(reply.body["id"])

\* update() ended on a job without id whose three required fields were set.
C13_Witness == UpdateEnded /\ NewJobFilled(old)

\* C15 as stated: the keys of the overlay are declared read-write fields.
C15_OverlayKeysReadWrite == DOMAIN _changes \subseteq RwFields

\* C15: the keys of the overlay are fields declared read-write or write-only
\* (Job.uri is write-only and its writes are kept in the overlay); a
\* read-only field is never a key of the overlay.
C15_OverlayKeysWritable ==
    /\ DOMAIN _changes \subseteq RwFields \cup WoFields
    /\ DOMAIN _changes \cap RoFields = {}
    /\ Wrote(WoFields) => last.name \in DOMAIN _changes

\* A write-only field was written after a write to a read-only field was
\* refused.
C15_Witness ==
    /\ Wrote(WoFields)
    /\ DOMAIN _changes \cap RwFields # {}

----------------------------------------------------------------------------
(* Client._recursive_items and Client._make_cf_attrs on nested mappings.   *)
(* A dict is the sequence of its (key, value) items in insertion order; a  *)
(* value is a leaf or a dict.                                              *)

\* Number of distinct leaf values of the mappings flattened.
MaxLeaves == 2

LeafNames == <<"1", "2", "3", "4">>

LeafValues == {LeafNames[i] : i \in 1..MaxLeaves}

Leaf(x) == [isdict |-> FALSE, leaf |-> x, items |-> <<>>]

Dict(items) == [isdict |-> TRUE, leaf |-> "", items |-> items]

SubKeys == {"a", "b"}

\* The dicts with keys of SubKeys, in any order, and values in V.
DictsOver(V) ==
    {<<>>}
    \cup {<< <<k, v>> >> : k \in SubKeys, v \in V}
    \cup {<< <<k[1], v1>>, <<k[2], v2>> >> :
            k \in {x \in SubKeys \X SubKeys : x[1] # x[2]}, v1 \in V, v2 \in V}

Leaves == {Leaf(x) : x \in LeafValues}

Nested1 == DictsOver(Leaves)

Nested2 == DictsOver(Leaves \cup {Dict(d) : d \in Nested1})

\* The example of the docstring of _make_cf_attrs, without its first key.
DocExample == << <<"options", Dict(<< <<"a", Leaf("1")>>, <<"b", Leaf("2")>> >>)>> >>

\* The mappings handed to _make_cf_attrs: nested up to three levels.
FlattenInputs ==
    Nested2
    \cup {<< <<k, Dict(d)>> >> : k \in SubKeys, d \in Nested2}
    \cup {DocExample}

RECURSIVE Client_recursive_items_parent_only(_, _)
\* _recursive_items restarting the path at each level: (k,) for path + (k,).
Client_recursive_items_parent_only(dict_, path) ==
    IF dict_ = <<>> THEN <<>>
    ELSE LET k == Head(dict_)[1]
             v == Head(dict_)[2]
         IN  (IF v.isdict
                THEN Client_recursive_items_parent_only(v.items, <<k>>)
                ELSE << <<Append(path, k), v.leaf>> >>)
             \o Client_recursive_items_parent_only(Tail(dict_), path)

RECURSIVE Client_recursive_items(_, _)
\* Client._recursive_items: the (path, value) pairs in the order generated.
Client_recursive_items(dict_, path) ==
    IF dict_ = <<>> THEN <<>>
    ELSE LET k == Head(dict_)[1]
             v == Head(dict_)[2]
         IN  (IF v.isdict
                THEN Client_recursive_items(v.items, Append(path, k))
                ELSE << <<Append(path, k), v.leaf>> >>)
             \o Client_recursive_items(Tail(dict_), path)

\* d[key] = value on an insertion-ordered dict: an existing key keeps its
\* place and takes the new value.
OrderedSet(d, key, value) ==
    IF \E i \in 1..Len(d) : d[i][1] = key
      THEN [i \in 1..Len(d) |-> IF d[i][1] = key THEN <<key, value>> ELSE d[i]]
      ELSE Append(d, <<key, value>>)

RECURSIVE DictComprehension(_, _, _)
\* {fmt.format(']['.join(p)): v for p, v in pairs}
DictComprehension(type_, pairs, acc) ==
    IF pairs = <<>> THEN acc
    ELSE DictComprehension(type_, Tail(pairs),
            OrderedSet(acc, CfName(type_, Head(pairs)[1]), Head(pairs)[2]))

\* Client._make_cf_attrs
Client_make_cf_attrs(type_, attrs) ==
    DictComprehension(type_, Client_recursive_items(attrs, <<>>), <<>>)

\* A call client._make_cf_attrs('job', attrs) is about to be made.
FlattenInit ==
    /\ flatten \in {[attrs |-> a, out |-> <<>>, done |-> FALSE] : a \in FlattenInputs}
    /\ _json = EmptyDict
    /\ _changes = EmptyDict
    /\ _client = "client"
    /\ Idle
    /\ FreshInstance
    /\ alias = NoAlias
    /\ NoMore

\* client._make_cf_attrs('job', attrs) returns.
MakeCfAttrsCall ==
    /\ ~flatten.done
    /\ flatten' = [attrs |-> flatten.attrs,
                   out |-> Client_make_cf_attrs("job", flatten.attrs),
                   done |-> TRUE]
    /\ UNCHANGED <<_json, _changes, _client, pc, request, reply, old, last>>
    /\ UNCHANGED <<_units, _judgments_aggregates, _dict, alias, more>>

FlattenNext == MakeCfAttrsCall

FlattenSpec == FlattenInit /\ [][FlattenNext]_vars

RECURSIVE LeafPaths(_)
\* The leaves of a nested mapping, each with the keys leading to it.
LeafPaths(d) ==
    UNION {IF d[i][2].isdict
             THEN {<< <<d[i][1]>> \o q[1], q[2] >> : q \in LeafPaths(d[i][2].items)}
             ELSE {<< <<d[i][1]>>, d[i][2].leaf >>}
           : i \in 1..Len(d)}

RECURSIVE Bracketed(_)
\* [k1][k2]...[kn]
Bracketed(p) == IF p = <<>> THEN "" ELSE "[" \o Head(p) \o "]" \o Bracketed(Tail(p))

RECURSIVE IndexPath(_, _)
\* The positions, level by level, of the keys of p in the mapping d.
IndexPath(d, p) ==
    LET i == CHOOSE j \in 1..Len(d) : d[j][1] = Head(p)
    IN  IF Len(p) = 1 THEN <<i>> ELSE <<i>> \o IndexPath(d[i][2].items, Tail(p))

RECURSIVE LexLess(_, _)
LexLess(a, b) ==
    IF a = <<>> \/ b = <<>> THEN FALSE
    ELSE Head(a) < Head(b) \/ (Head(a) = Head(b) /\ LexLess(Tail(a), Tail(b)))

\* The key path of the leaf the parameter called name comes from.
PathOf(d, name) == CHOOSE p \in {q[1] : q \in LeafPaths(d)} : "job" \o Bracketed(p) = name

----------------------------------------------------------------------------
(* The other operations on a Job instance: names the class declares no     *)
(* field for, item access, commands and the cached relations.              *)

\* A name Job declares no descriptor for (job.py line 69 is commented out).
UndeclaredNames == {"problem"}

\* Reading a name the class does not define: the instance's own attributes
\* are looked up, and AttributeError is raised when the name is not there.
Object_getattr(dict_, name) ==
    IF name \in DOMAIN dict_
      THEN Returned(dict_[name])
      ELSE Raised("AttributeError", name)

\* An assignment that refuses a name the class does not define.
Object_setattr_refuse(dict_, name, value) ==
    [dict |-> dict_, res |-> Raised("AttributeError", name)]

\* Assigning a name the class does not define: Base has no __setattr__ and
\* no __slots__, so the value becomes an attribute of the instance.
Object_setattr(dict_, name, value) ==
    [dict |-> DictSet(dict_, name, value), res |-> Done]

\* Base.__getitem__: self._changes.get(item, self._json[item]).  The default
\* self._json[item] is evaluated before .get is called.
Base_getitem(json, changes, item) ==
    IF item \notin DOMAIN json
      THEN Raised("KeyError", item)
      ELSE IF item \in DOMAIN changes
             THEN Returned(changes[item])
             ELSE Returned(json[item])

\* The commands made by _command.
CommandNames == {"pause", "resume", "cancel", "ping", "legend"}

\* A command that sends the pending changes along.
Job_command_sends_changes(json, changes, client, name) ==
    IF client = "None"
      THEN [res |-> Raised("AttributeError", "jobs"), request |-> NoRequest]
      ELSE LET i == Getattr(json, changes, "id")
           IN  IF i.kind # "value"
                 THEN [res |-> i, request |-> NoRequest]
                 ELSE [res |-> Done,
                       request |-> [method |-> "get", id |-> i.val,
                                    data |-> MakeCfAttrs("job", changes)]]

\* _command up to the request: self._client.jobs is looked up, then self.id
\* is read, then jobs[id][name]() is called.
Job_command(json, changes, client, name) ==
    IF client = "None"
      THEN [res |-> Raised("AttributeError", "jobs"), request |-> NoRequest]
      ELSE LET i == Getattr(json, changes, "id")
           IN  IF i.kind # "value"
                 THEN [res |-> i, request |-> NoRequest]
                 ELSE [res |-> Done,
                       request |-> [method |-> "get", id |-> i.val,
                                    data |-> EmptyDict]]

\* Job.launch up to the request: self._client.debit_order is looked up, then
\* Client.debit_order reads job.id and calls jobs[id].orders(data=...);
\* Client.call turns a 'get' with data into a 'post'.
Job_launch(json, changes, client, units_count, channels) ==
    IF client = "None"
      THEN [res |-> Raised("AttributeError", "debit_order"),
            request |-> NoRequest]
      ELSE LET i == Getattr(json, changes, "id")
           IN  IF i.kind # "value"
                 THEN [res |-> i, request |-> NoRequest]
                 ELSE [res |-> Done,
                       request |-> [method |-> "post", id |-> i.val,
                                    data |-> ("channels[]" :> channels) @@
                                             ("debit[units_count]" :> units_count)]]

\* Number of pages with content a listing has.
MaxPages == 1

UnitIds == <<"u1", "u2", "u3">>

\* The i-th page of a listing: one entry, keyed by a unit id.
Page(i) == [kind |-> "json", body |-> (UnitIds[i] :> "d")]

\* The answers that end a listing: the empty page (the sentinel {}), an
\* error report, or a failure of the request.
LastPages ==
    {[kind |-> k, body |-> EmptyDict] : k \in FailureKinds \cup {"json"}}
    \cup {[kind |-> "json", body |-> ("error" :> "d")]}

\* What the server answers to the requests for page 1, 2, ... of a listing.
PageRuns ==
    {[i \in 1..(n + 1) |-> IF i <= n THEN Page(i) ELSE e] :
        n \in 0..MaxPages, e \in LastPages}

\* Client.paged_call consumed to its end: iter(lambda: self.call(...), {})
\* calls page after page until one equals the sentinel or call raises.
RECURSIVE Client_paged_call(_, _, _)
Client_paged_call(pages, i, acc) ==
    LET r == Client_call(pages[i])
    IN  IF r.res.kind # "ok"
          THEN [res |-> r.res, calls |-> i, pages |-> acc]
          ELSE IF r.body = EmptyDict
                 THEN [res |-> Done, calls |-> i, pages |-> acc]
                 ELSE Client_paged_call(pages, i + 1, Append(acc, r.body))

\* The (key, value) items of the pages, page after page.
RECURSIVE Items(_)
Items(pages) ==
    IF pages = <<>> THEN <<>>
    ELSE LET d == Head(pages)
             k == CHOOSE k \in DOMAIN d : TRUE
         IN  <<<<k, d[k]>>>> \o Items(Tail(pages))

\* list(Client.get_units(job)): job.id is read, the pages are fetched, and
\* every item gives UnitPromise(job, client=self, id=unit_id, data=data).
Client_get_units(json, changes, pages) ==
    LET i == Getattr(json, changes, "id")
    IN  IF i.kind # "value"
          THEN [res |-> i, calls |-> 0, list |-> <<>>]
          ELSE LET p == Client_paged_call(pages, 1, <<>>)
                   it == Items(p.pages)
               IN  [res |-> p.res, calls |-> p.calls,
                    list |-> [j \in 1..Len(it) |->
                                 [id |-> it[j][1], data |-> it[j][2]]]]

\* list(Client.get_judgmentaggregates(job)): as get_units, every value of a
\* page giving JudgmentAggregate(job, client=self, **data).
Client_get_judgmentaggregates(json, changes, pages) ==
    LET i == Getattr(json, changes, "id")
    IN  IF i.kind # "value"
          THEN [res |-> i, calls |-> 0, list |-> <<>>]
          ELSE LET p == Client_paged_call(pages, 1, <<>>)
                   it == Items(p.pages)
               IN  [res |-> p.res, calls |-> p.calls,
                    list |-> [j \in 1..Len(it) |-> [data |-> it[j][2]]]]

\* A relation property that fetches again when the cached list is empty.
Job_relation_truthy(cache, client, method, fetched) ==
    IF cache.set /\ cache.list # <<>>
      THEN [cache |-> cache, res |-> Done, calls |-> 0, list |-> cache.list]
      ELSE IF client = "None"
        THEN [cache |-> cache, res |-> Raised("AttributeError", method),
              calls |-> 0, list |-> <<>>]
        ELSE IF fetched.res.kind # "ok"
          THEN [cache |-> cache, res |-> fetched.res,
                calls |-> fetched.calls, list |-> <<>>]
          ELSE [cache |-> [set |-> TRUE, list |-> fetched.list], res |-> Done,
                calls |-> fetched.calls, list |-> fetched.list]

\* Job.units and Job.judgment_aggregates: the cache attribute is returned
\* when it is set; on AttributeError the client's method is looked up, the
\* listing is fetched whole, and only then the attribute is assigned.
Job_relation(cache, client, method, fetched) ==
    IF cache.set
      THEN [cache |-> cache, res |-> Done, calls |-> 0, list |-> cache.list]
      ELSE IF client = "None"
        THEN [cache |-> cache, res |-> Raised("AttributeError", method),
              calls |-> 0, list |-> <<>>]
        ELSE IF fetched.res.kind # "ok"
          THEN [cache |-> cache, res |-> fetched.res,
                calls |-> fetched.calls, list |-> <<>>]
          ELSE [cache |-> [set |-> TRUE, list |-> fetched.list], res |-> Done,
                calls |-> fetched.calls, list |-> fetched.list]

\* Job.units
Job_units(cache, json, changes, client, pages) ==
    Job_relation(cache, client, "get_units",
                 Client_get_units(json, changes, pages))

\* Job.judgment_aggregates
Job_judgment_aggregates(cache, json, changes, client, pages) ==
    Job_relation(cache, client, "get_judgmentaggregates",
                 Client_get_judgmentaggregates(json, changes, pages))

\* An operation that is neither a field access nor update() starts.
Begin ==
    /\ pc = "idle"
    /\ old' = Snapshot
    /\ UNCHANGED <<_json, _changes, _client, pc, flatten, alias, more>>

\* instance.name = value for a name without a descriptor
SetUndeclared(name, value) ==
    /\ Begin
    /\ LET r == Object_setattr(_dict, name, value)
       IN  /\ _dict' = r.dict
           /\ last' = [op |-> "set", name |-> name, arg |-> value, res |-> r.res]
    /\ request' = NoRequest
    /\ reply' = NoReply
    /\ UNCHANGED <<_units, _judgments_aggregates>>

\* instance.name for a name without a descriptor
GetUndeclared(name) ==
    /\ Begin
    /\ last' = [op |-> "get", name |-> name, arg |-> "",
                res |-> Object_getattr(_dict, name)]
    /\ request' = NoRequest
    /\ reply' = NoReply
    /\ UNCHANGED <<_units, _judgments_aggregates, _dict>>

\* instance[item]
GetItem(item) ==
    /\ Begin
    /\ last' = [op |-> "getitem", name |-> item, arg |-> "",
                res |-> Base_getitem(_json, _changes, item)]
    /\ request' = NoRequest
    /\ reply' = NoReply
    /\ UNCHANGED <<_units, _judgments_aggregates, _dict>>

\* job.pause(), job.resume(), job.cancel(), job.ping(), job.legend(): the
\* request, the server's answer and what Client.call makes of it.
JobCommand(name) ==
    /\ Begin
    /\ LET c == Job_command(_json, _changes, _client, name)
       IN  IF c.res.kind # "ok"
             THEN /\ request' = NoRequest
                  /\ reply' = NoReply
                  /\ last' = [op |-> "command", name |-> name, arg |-> "",
                              res |-> c.res]
             ELSE /\ request' = c.request
                  /\ reply' \in Replies
                  /\ last' = [op |-> "command", name |-> name, arg |-> "",
                              res |-> Client_call(reply').res]
    /\ UNCHANGED <<_units, _judgments_aggregates, _dict>>

\* job.launch(units_count, channels): the request, the server's answer and
\* what Client.call makes of it.
JobLaunch(units_count, channels) ==
    /\ Begin
    /\ LET c == Job_launch(_json, _changes, _client, units_count, channels)
       IN  IF c.res.kind # "ok"
             THEN /\ request' = NoRequest
                  /\ reply' = NoReply
                  /\ last' = [op |-> "command", name |-> "launch",
                              arg |-> units_count, res |-> c.res]
             ELSE /\ request' = c.request
                  /\ reply' \in Replies
                  /\ last' = [op |-> "command", name |-> "launch",
                              arg |-> units_count,
                              res |-> Client_call(reply').res]
    /\ UNCHANGED <<_units, _judgments_aggregates, _dict>>

\* job.units
GetUnits ==
    /\ Begin
    /\ \E pages \in PageRuns :
         LET r == Job_units(_units, _json, _changes, _client, pages)
         IN  /\ _units' = r.cache
             /\ last' = [op |-> "units", name |-> NoName, arg |-> "",
                         res |-> r.res, calls |-> r.calls, list |-> r.list,
                         before |-> _units]
    /\ request' = NoRequest
    /\ reply' = NoReply
    /\ UNCHANGED <<_judgments_aggregates, _dict>>

\* job.judgment_aggregates
GetJudgmentAggregates ==
    /\ Begin
    /\ \E pages \in PageRuns :
         LET r == Job_judgment_aggregates(_judgments_aggregates, _json,
                                          _changes, _client, pages)
         IN  /\ _judgments_aggregates' = r.cache
             /\ last' = [op |-> "judgment_aggregates", name |-> NoName,
                         arg |-> "", res |-> r.res, calls |-> r.calls,
                         list |-> r.list, before |-> _judgments_aggregates]
    /\ request' = NoRequest
    /\ reply' = NoReply
    /\ UNCHANGED <<_units, _dict>>

\* The data the jobs of ResourceSpec are constructed from: a job that was
\* not created on the server yet (no id), a job as the server lists it, and
\* a job whose data holds its uri and a key the class declares no field for.
ResourceData ==
    {[k \in D |-> "b"] :
        D \in {RequiredFields, RequiredFields \cup {"id"},
               {"id", "uri"} \cup UndeclaredNames}}

ResourceInit ==
    /\ _json \in ResourceData
    /\ _changes = EmptyDict
    /\ _client \in {"None", "client"}
    /\ Idle
    /\ FreshInstance
    /\ flatten = NoFlatten
    /\ alias = NoAlias
    /\ NoMore

\* The fields written and read in ResourceSpec: one of each mode.
ResourceFields == {"id", "title", "uri"}

ResourceNext ==
    \/ \E name \in ResourceFields, value \in WriteValues : SetAttr(name, value)
    \/ \E name \in ResourceFields : GetAttr(name)
    \/ \E name \in UndeclaredNames, value \in WriteValues :
          SetUndeclared(name, value)
    \/ \E name \in UndeclaredNames : GetUndeclared(name)
    \/ \E item \in ResourceFields \cup UndeclaredNames : GetItem(item)
    \/ \E name \in CommandNames : JobCommand(name)
    \/ JobLaunch("1", "on_demand")
    \/ GetUnits
    \/ GetJudgmentAggregates
    \/ JobUpdate
    \/ ServerReply
    \/ UpdateMerge
    \/ UpdateClear

ResourceSpec == ResourceInit /\ [][ResourceNext]_vars

----------------------------------------------------------------------------
(* The dict objects of Base.update.  alias.heap holds the dicts that were  *)
(* bound to self._changes, alias.changes is the one bound now, and         *)
(* alias.handed is the one _send_changes received as its argument;         *)
(* alias.sent is what that argument held when it was handed.               *)

\* Number of dict objects bound to self._changes over the life of a job.
MaxDicts == 2

\* An argument that is dict(self._changes): a new object with the same items.
Base_update_hand_copy(a) ==
    [heap |-> Append([i \in DOMAIN a.heap |->
                         IF i = a.changes THEN a.heap[i] ELSE EmptyDict],
                     a.heap[a.changes]),
     changes |-> a.changes,
     handed |-> Len(a.heap) + 1,
     sent |-> a.heap[a.changes]]

\* Base.update line 91: self._send_changes(self._changes).  The argument is
\* the object bound to self._changes; a dict handed earlier is referenced no
\* more, and is followed no further.
Base_update_hand(a) ==
    [heap |-> [i \in DOMAIN a.heap |->
                  IF i = a.changes THEN a.heap[i] ELSE EmptyDict],
     changes |-> a.changes,
     handed |-> a.changes,
     sent |-> a.heap[a.changes]]

\* Base.update line 92: self._changes = {}.  A new dict is bound; the old one
\* is left as it is.
Base_update_rebind(a) ==
    [a EXCEPT !.heap = Append(a.heap, EmptyDict), !.changes = Len(a.heap) + 1]

\* A job as listed by the server.
AliasData == {[k \in RequiredFields \cup {"id"} |-> "b"]}

AliasInit ==
    /\ _json \in AliasData
    /\ _changes = EmptyDict
    /\ _client = "client"
    /\ Idle
    /\ FreshInstance
    /\ flatten = NoFlatten
    /\ NoMore
    /\ alias = [heap |-> <<EmptyDict>>, changes |-> 1, handed |-> 0,
                sent |-> EmptyDict]

\* instance.name = value, on the dict bound to self._changes
AliasSetAttr(name, value) ==
    /\ pc = "idle"
    /\ LET r == Setattr(alias.heap[alias.changes], name, value)
       IN  /\ alias' = [alias EXCEPT !.heap[alias.changes] = r.changes]
           /\ _changes' = r.changes
           /\ last' = [op |-> "set", name |-> name, arg |-> value, res |-> r.res]
    /\ old' = Snapshot
    /\ request' = NoRequest
    /\ reply' = NoReply
    /\ UNCHANGED <<_json, _client, pc, _units, _judgments_aggregates, _dict,
                   flatten, more>>

\* job.update() up to the remote call, the argument of _send_changes
\* being followed.
AliasJobUpdate ==
    /\ pc = "idle"
    /\ Len(alias.heap) < MaxDicts
    /\ old' = Snapshot
    /\ reply' = NoReply
    /\ \E order \in Orders :
         LET v == CheckRequired(_json, _changes, order)
             s == Job_send_changes(_json, alias.heap[alias.changes], _client)
         IN  IF v.kind # "ok"
               THEN /\ last' = [op |-> "update", name |-> NoName, arg |-> "",
                                res |-> v]
                    /\ request' = NoRequest
                    /\ UNCHANGED <<pc, alias>>
               ELSE /\ alias' = Base_update_hand(alias)
                    /\ request' = s.request
                    /\ IF s.res.kind # "ok"
                         THEN /\ last' = [op |-> "update", name |-> NoName,
                                          arg |-> "", res |-> s.res]
                              /\ UNCHANGED pc
                         ELSE /\ pc' = "call"
                              /\ UNCHANGED last
    /\ UNCHANGED <<_json, _changes, _client, _units, _judgments_aggregates,
                   _dict, flatten, more>>

\* Base.update line 92 on the dict objects, and update() returns.
AliasUpdateClear ==
    /\ pc = "merged"
    /\ alias' = Base_update_rebind(alias)
    /\ _changes' = alias'.heap[alias'.changes]
    /\ pc' = "idle"
    /\ last' = [op |-> "update", name |-> NoName, arg |-> "", res |-> Done]
    /\ UNCHANGED <<_json, _client, request, reply, old, _units,
                   _judgments_aggregates, _dict, flatten, more>>

\* The fields written in AliasSpec.
AliasFields == {"title", "uri"}

AliasNext ==
    \/ \E name \in AliasFields, value \in WriteValues : AliasSetAttr(name, value)
    \/ AliasJobUpdate
    \/ ServerReply
    \/ UpdateMerge
    \/ AliasUpdateClear

AliasSpec == AliasInit /\ [][AliasNext]_vars

----------------------------------------------------------------------------
(* Properties of the operations of ResourceSpec and AliasSpec.             *)

\* The server's answer is one Client.call returns: a JSON body that reports
\* no error.
Accepted(rep) ==
    /\ rep.kind = "json"
    /\ DOMAIN rep.body \cap {"error", "errors"} = {}

\* C16: the baseline is changed only by a successful synchronization: a step
\* that changes _json is the merge of an accepted reply into it, update()
\* then returns normally, and every other operation (reads and writes of
\* fields of any mode, failed writes, failed or rejected updates, commands,
\* relation access) leaves _json as it was.
C16_BaselineChangedOnlyBySync ==
    [][/\ _json' # _json =>
            /\ pc = "reply" /\ pc' = "merged"
            /\ Accepted(reply)
            /\ _json' = DictUpdate(_json, reply.body)
       /\ pc = "merged" =>
            /\ pc' = "idle"
            /\ last'.op = "update" /\ last'.res = Done
            /\ _json' = _json
       /\ (pc' = "idle" /\ ~(last'.op = "update" /\ last'.res = Done)) =>
            _json' = old'.json]_vars

\* A command or a relation access failed on a job whose baseline an earlier
\* update had changed and whose overlay holds a write.
C16_Witness ==
    /\ pc = "idle"
    /\ last.op \in {"command", "units", "judgment_aggregates"}
    /\ last.res.kind # "ok"
    /\ _json \notin ResourceData
    /\ _changes # EmptyDict

\* An operation on a name without a descriptor ended.
Undeclared(op) == pc = "idle" /\ last.op = op /\ last.name \in UndeclaredNames

\* C17 as stated: reading or writing an undeclared name fails and leaves
\* baseline and overlay unchanged; the name never becomes readable by
\* attribute access or by item access.
C17_UndeclaredFails ==
    /\ (Undeclared("get") \/ Undeclared("set") \/ Undeclared("getitem")) =>
          last.res.kind \notin {"ok", "value"} /\ Untouched
    /\ DOMAIN _dict \cap UndeclaredNames = {}

\* C17: reading an undeclared name that was never assigned fails with
\* AttributeError; writing an undeclared name succeeds, keeps the value on
\* the instance, where attribute access then reads it; item access reads an
\* undeclared name from the baseline when it is a key there and fails with
\* KeyError otherwise; none of them changes baseline or overlay, and an
\* undeclared name is never a key of the overlay.
C17_UndeclaredIsInstanceAttribute ==
    /\ (Undeclared("get") \/ Undeclared("set") \/ Undeclared("getitem")) =>
          Untouched
    /\ Undeclared("set") =>
          /\ last.res = Done
          /\ last.name \in DOMAIN _dict
          /\ _dict[last.name] = last.arg
    /\ Undeclared("get") =>
          IF last.name \in DOMAIN _dict
            THEN last.res = Returned(_dict[last.name])
            ELSE last.res = Raised("AttributeError", last.name)
    /\ Undeclared("getitem") =>
          IF last.name \in DOMAIN _json
            THEN last.res = Returned(_json[last.name])
            ELSE last.res = Raised("KeyError", last.name)
    /\ DOMAIN _changes \cap UndeclaredNames = {}

\* An undeclared name that had been assigned was read by attribute access.
C17_Witness ==
    /\ Undeclared("get")
    /\ last.res.kind = "value"
    /\ last.res.val # ""

\* C18: neither attribute access nor item access returns the value pending
\* for a write-only field.
C18_WriteOnlyNeverRead ==
    (/\ pc = "idle"
     /\ last.op \in {"get", "getitem"}
     /\ last.name \in WoFields
     /\ last.name \in DOMAIN _changes) =>
        last.res # Returned(_changes[last.name])

\* update() has handed a change set to _send_changes.
Handed == alias.handed # 0

\* C19 as stated: the change set handed to _send_changes is a copy: it holds
\* what the overlay held at the call, handing it leaves the overlay as it
\* was, and no later write to the resource alters it.
C19_HandedIsCopy ==
    Handed =>
        /\ alias.heap[alias.handed] = alias.sent
        /\ pc = "call" => _changes = old.changes /\ alias.sent = old.changes

\* C19: the change set handed to _send_changes is the overlay dict itself,
\* not a copy.  Handing it leaves the overlay as it was, and it holds what
\* the overlay held at the call.  Until update() succeeds it stays the
\* overlay, so a later write to the resource shows in it; a successful
\* update() binds a new empty dict as overlay and leaves the handed one as
\* it was handed.
C19_HandedIsOverlay ==
    /\ _changes = alias.heap[alias.changes]
    /\ Handed =>
          /\ pc = "call" =>
                /\ alias.handed = alias.changes
                /\ _changes = old.changes
                /\ alias.sent = old.changes
          /\ (pc = "idle" /\ last.op = "update" /\ last.res = Done) =>
                /\ alias.handed # alias.changes
                /\ _changes = EmptyDict
          /\ alias.handed = alias.changes =>
                /\ alias.heap[alias.handed] = _changes
                /\ Wrote(RwFields \cup WoFields) =>
                      alias.heap[alias.handed][last.name] = last.arg
          /\ alias.handed # alias.changes =>
                alias.heap[alias.handed] = alias.sent

\* After a failed update() a write changed the dict that had been handed.
C19_Witness ==
    /\ Handed
    /\ Wrote(RwFields \cup WoFields)
    /\ alias.handed = alias.changes
    /\ alias.heap[alias.handed] # alias.sent

\* A relation access ended: the cache it used and the cache it left.
RelationAccess(op, cache) ==
    (pc = "idle" /\ last.op = op) =>
        /\ last.before.set =>
              /\ last.calls = 0
              /\ last.res = Done
              /\ last.list = last.before.list
              /\ cache = last.before
        /\ (~last.before.set /\ last.res.kind = "ok") =>
              /\ last.calls >= 1
              /\ cache = [set |-> TRUE, list |-> last.list]
        /\ (~last.before.set /\ last.res.kind # "ok") =>
              cache = Unset
        /\ (~last.before.set /\ _client # "None" /\ "id" \in DOMAIN _json) =>
              last.calls >= 1

\* C20: for units and for judgment_aggregates, an access made once the cache
\* is populated performs no remote call and returns the cached list, which
\* stays as it is; an access with the cache unpopulated fetches the listing,
\* and populates the cache with it only if the fetch succeeds: a failed
\* fetch leaves the cache unpopulated, so that the next access fetches again.
\* A populated cache is never changed again.
C20_RelationFetchedOnce ==
    /\ [](/\ RelationAccess("units", _units)
          /\ RelationAccess("judgment_aggregates", _judgments_aggregates))
    /\ [][/\ _units.set => _units' = _units
          /\ _judgments_aggregates.set =>
                _judgments_aggregates' = _judgments_aggregates]_vars

\* An access to units returned the empty list from the cache, without a
\* remote call, on a job whose judgment aggregates are cached too.
C20_Witness ==
    /\ pc = "idle"
    /\ last.op = "units"
    /\ last.before.set
    /\ last.list = <<>>
    /\ last.calls = 0
    /\ _judgments_aggregates.set
    /\ _judgments_aggregates.list # <<>>

----------------------------------------------------------------------------
(* Two callers inside Job.units of one instance.  The property runs in     *)
(* four steps a thread switch can separate: the try (self._units is read), *)
(* the requests of list(self._client.get_units(self)) page by page into a  *)
(* list local to the caller, the assignment of self._units, and the read   *)
(* of self._units that is returned.                                        *)

Callers == {"a", "b"}

\* Number of accesses a caller makes.
MaxAccesses == 2

\* The answers the server can give to the request for page k.
PageAnswers(k) == (IF k <= MaxPages THEN {Page(k)} ELSE {}) \cup LastPages

\* A property that binds the attribute to the list while it is being filled.
Job_units_slot_filling(cache, acc) == [set |-> TRUE, list |-> acc]

\* The attribute while list(...) is consuming the listing: job.py line 259
\* assigns only after list(...) has returned, so the attribute is as it was.
Job_units_slot(cache, acc) == cache

RaceInit ==
    /\ _json \in AliasData
    /\ _changes = EmptyDict
    /\ _client = "client"
    /\ Idle
    /\ FreshInstance
    /\ flatten = NoFlatten
    /\ alias = NoAlias
    /\ race = [on |-> TRUE,
               pc |-> [c \in Callers |-> "out"],
               acc |-> [c \in Callers |-> <<>>],
               hit |-> [c \in Callers |-> FALSE],
               got |-> [c \in Callers |-> Unset],
               res |-> [c \in Callers |-> Done],
               n |-> [c \in Callers |-> 0],
               fetches |-> [c \in Callers |-> 0],
               completed |-> {},
               written |-> <<>>]
    /\ pair = NoPair
    /\ paging = NoPaging
    /\ promise = NoPromise
    /\ upload = NoUpload
    /\ aggr = NoAggr
    /\ tags = NoTags

RaceFrame ==
    UNCHANGED <<_json, _changes, _client, pc, request, reply, old, last,
                _judgments_aggregates, _dict, flatten, alias,
                pair, paging, promise, upload, aggr, tags>>

\* Caller c enters Job.units: job.py lines 254-255.
RaceTry(c) ==
    /\ race.pc[c] = "out"
    /\ race.n[c] < MaxAccesses
    /\ IF _units.set
         THEN race' = [race EXCEPT !.n[c] = @ + 1, !.hit[c] = TRUE,
                                   !.got[c] = _units, !.res[c] = Done]
         ELSE race' = [race EXCEPT !.n[c] = @ + 1, !.hit[c] = FALSE,
                                   !.got[c] = Unset, !.res[c] = Done,
                                   !.pc[c] = "fetch", !.acc[c] = <<>>,
                                   !.fetches[c] = @ + 1]
    /\ UNCHANGED _units
    /\ RaceFrame

\* list(...) of caller c requests the next page: job.py line 259,
\* client.py lines 430-432.
RaceFetchPage(c) ==
    /\ race.pc[c] = "fetch"
    /\ \E rep \in PageAnswers(Len(race.acc[c]) + 1) :
         LET r == Client_call(rep)
         IN  IF r.res.kind # "ok"
               THEN /\ race' = [race EXCEPT !.pc[c] = "out", !.res[c] = r.res]
                    /\ UNCHANGED _units
               ELSE IF r.body = EmptyDict
                 THEN /\ race' = [race EXCEPT
                                     !.pc[c] = "store",
                                     !.completed = @ \cup {race.acc[c]}]
                      /\ UNCHANGED _units
                 ELSE LET it == Items(<<r.body>>)
                          a == Append(race.acc[c],
                                      [id |-> it[1][1], data |-> it[1][2]])
                      IN  /\ race' = [race EXCEPT !.acc[c] = a]
                          /\ _units' = Job_units_slot(_units, a)
    /\ RaceFrame

\* Caller c assigns self._units: job.py line 259.
RaceStore(c) ==
    /\ race.pc[c] = "store"
    /\ _units' = [set |-> TRUE, list |-> race.acc[c]]
    /\ race' = [race EXCEPT !.pc[c] = "return",
                            !.written = Append(@, race.acc[c])]
    /\ RaceFrame

\* Caller c returns self._units: job.py line 260.
RaceReturn(c) ==
    /\ race.pc[c] = "return"
    /\ race' = [race EXCEPT !.pc[c] = "out", !.got[c] = _units]
    /\ UNCHANGED _units
    /\ RaceFrame

RaceNext ==
    \E c \in Callers :
        \/ RaceTry(c)
        \/ RaceFetchPage(c)
        \/ RaceStore(c)
        \/ RaceReturn(c)

RaceSpec == RaceInit /\ [][RaceNext]_vars

\* C21: when two callers are inside the same relation property of one Job,
\* each caller fetches at most once in an access and only after it found
\* the attribute unset, at most one fetch per caller runs to its end, so
\* at most two lists are ever assigned; a caller that returns receives a
\* list that was fetched whole; the attribute holds nothing but the whole
\* list assigned last; and an access that finds the attribute set fetches
\* nothing.
C21_RaceDuplicatesFetchOnly ==
    /\ [](/\ \A c \in Callers :
                /\ race.fetches[c] <= race.n[c]
                /\ race.hit[c] => race.pc[c] = "out" /\ race.got[c].set
                /\ race.got[c].set => race.got[c].list \in race.completed
          /\ Len(race.written) <= Cardinality(Callers)
          /\ _units.set <=> race.written # <<>>
          /\ _units.set =>
                /\ _units.list = race.written[Len(race.written)]
                /\ _units.list \in race.completed)
    /\ [][/\ _units.set => _units'.set
          /\ \A c \in Callers :
                (_units.set /\ race.pc[c] = "out") =>
                    race'.fetches[c] = race.fetches[c]]_vars

\* Both callers fetched, their lists differ, and the caller that assigned
\* first was returned the list of the other.
C21_Witness ==
    /\ Len(race.written) = 2
    /\ race.written[1] # race.written[2]
    /\ \E c \in Callers :
          /\ race.pc[c] = "out"
          /\ race.got[c].set
          /\ race.got[c].list = race.written[2]
          /\ race.got[c].list # race.acc[c]

----------------------------------------------------------------------------
(* Commands and the change tracking.                                       *)

\* The parameter update() sends field f as.
CfKey(f) == "job[" \o f \o "]"

\* A command (pause, resume, cancel, ping, legend or launch) has ended.
CommandEnded == pc = "idle" /\ last.op = "command"

\* C22: a Job command is a remote call of its own: its request carries none
\* of the pending changes, whether it succeeds or fails it leaves baseline
\* and overlay as they were, and an update() that follows it sends every
\* pending change.
C22_CommandsBypassTracking ==
    /\ [](CommandEnded =>
            /\ Untouched
            /\ \A f \in DOMAIN _changes : CfKey(f) \notin DOMAIN request.data
            /\ last.res.kind = "ok" => request # NoRequest)
    /\ [][(CommandEnded /\ pc' = "call") =>
            /\ request'.method = "put"
            /\ \A f \in DOMAIN _changes :
                  /\ CfKey(f) \in DOMAIN request'.data
                  /\ request'.data[CfKey(f)] = _changes[f]]_vars

\* update() made its request right after a launch that failed at the server,
\* with a write-only and a read-write field pending.
C22_Witness ==
    /\ pc = "call"
    /\ last.op = "command"
    /\ last.name = "launch"
    /\ last.res.kind = "ApiError"
    /\ {"title", "uri"} \subseteq DOMAIN _changes

----------------------------------------------------------------------------
(* Two Job instances constructed from the same data.  pair.heap holds the  *)
(* dict objects: the caller's data, and the dicts bound to _json and to    *)
(* _changes of each instance.                                              *)

Insts == {"x", "y"}

\* Number of dict objects allocated over the life of the two instances.
MaxHeap == 6

\* A constructor that keeps the caller's dict: __init__(self, data, client).
Job_init_by_reference(p, i) ==
    [p EXCEPT !.heap = Append(p.heap, EmptyDict),
              !.json[i] = p.data,
              !.changes[i] = Len(p.heap) + 1]

\* Job.__init__(self, client=None, **data) called as Job(client=c, **d): the
\* keyword arguments are collected into a new dict, which Base.__init__
\* binds to _json, and _changes is bound to a new empty dict.
Job_init(p, i) ==
    [p EXCEPT !.heap = p.heap \o <<p.heap[p.data], EmptyDict>>,
              !.json[i] = Len(p.heap) + 1,
              !.changes[i] = Len(p.heap) + 2]

\* What instance i holds and what its fields read.
View(p, i) ==
    [json |-> p.heap[p.json[i]],
     changes |-> p.heap[p.changes[i]],
     reads |-> [f \in Fields |->
                  Getattr(p.heap[p.json[i]], p.heap[p.changes[i]], f)]]

\* The caller's data alone, before any instance is constructed.
PairData(d) ==
    [on |-> TRUE, heap |-> <<d>>, data |-> 1,
     json |-> [i \in Insts |-> 0], changes |-> [i \in Insts |-> 0],
     inst |-> "-", op |-> "init", res |-> Done,
     snap |-> [i \in Insts |-> EmptyDict]]

PairInit ==
    /\ _json = EmptyDict
    /\ _changes = EmptyDict
    /\ _client = "client"
    /\ Idle
    /\ FreshInstance
    /\ flatten = NoFlatten
    /\ alias = NoAlias
    /\ race = NoRace
    /\ \E d \in ResourceData :
         LET p == Job_init(Job_init(PairData(d), "x"), "y")
         IN  pair = [p EXCEPT !.snap = [i \in Insts |-> View(p, i)]]
    /\ paging = NoPaging
    /\ promise = NoPromise
    /\ upload = NoUpload
    /\ aggr = NoAggr
    /\ tags = NoTags

PairFrame ==
    UNCHANGED <<_json, _changes, _client, pc, request, reply, old, last,
                _units, _judgments_aggregates, _dict, flatten, alias,
                race, paging, promise, upload, aggr, tags>>

\* The views of both instances as an operation starts.
PairSnap == [i \in Insts |-> View(pair, i)]

\* i.name = value
PairSetAttr(i, name, value) ==
    /\ LET r == Setattr(pair.heap[pair.changes[i]], name, value)
       IN  pair' = [pair EXCEPT !.heap[pair.changes[i]] = r.changes,
                                !.inst = i, !.op = "set", !.res = r.res,
                                !.snap = PairSnap]
    /\ PairFrame

\* i.update(), with the answer of the server: Job.update, and base.py line
\* 91 updating the dict bound to _json in place, line 92 binding a new dict.
PairUpdate(i) ==
    /\ Len(pair.heap) < MaxHeap
    /\ \E order \in Orders, rep \in Replies :
         LET json == pair.heap[pair.json[i]]
             changes == pair.heap[pair.changes[i]]
             v == CheckRequired(json, changes, order)
             s == Job_send_changes(json, changes, _client)
             r == Client_call(rep)
             res == IF v.kind # "ok" THEN v
                    ELSE IF s.res.kind # "ok" THEN s.res ELSE r.res
         IN  IF res.kind # "ok"
               THEN pair' = [pair EXCEPT !.inst = i, !.op = "update",
                                         !.res = res, !.snap = PairSnap]
               ELSE pair' = [pair EXCEPT
                               !.heap = Append(
                                   [pair.heap EXCEPT ![pair.json[i]] =
                                       Base_update_merge(json, r.body)],
                                   Base_update_clear(changes)),
                               !.changes[i] = Len(pair.heap) + 1,
                               !.inst = i, !.op = "update", !.res = res,
                               !.snap = PairSnap]
    /\ PairFrame

\* The fields written in PairSpec.
PairFields == {"id", "title", "uri"}

PairNext ==
    \E i \in Insts :
        \/ \E name \in PairFields, value \in WriteValues :
              PairSetAttr(i, name, value)
        \/ PairUpdate(i)

PairSpec == PairInit /\ [][PairNext]_vars

\* C23: two instances share no mutable tracking state: a field write, a
\* failed update or a successful update on one instance leaves the baseline,
\* the overlay and every field read of the other instance as they were, also
\* when both were constructed from the same data; the dicts bound to _json
\* and _changes of one instance are not those of the other.
C23_InstancesShareNothing ==
    /\ \A j \in Insts : j # pair.inst => View(pair, j) = pair.snap[j]
    /\ pair.json["x"] # pair.json["y"]
    /\ pair.changes["x"] # pair.changes["y"]
    /\ {pair.json[i] : i \in Insts} \cap {pair.changes[i] : i \in Insts} = {}

\* An update of one instance succeeded and changed its baseline while the
\* other instance, constructed from the same data, holds pending writes.
C23_Witness ==
    /\ pair.op = "update"
    /\ pair.res = Done
    /\ \E i, j \in Insts :
          /\ i = pair.inst /\ j # i
          /\ View(pair, i).json # pair.snap[i].json
          /\ View(pair, j).changes # EmptyDict
          /\ View(pair, j).json = pair.heap[pair.data]

----------------------------------------------------------------------------
(* A listing consumed item by item: the generator Client.get_units over    *)
(* the generator Client.paged_call.  paging.page is the value the counter  *)
(* count(page) gives next, paging.requested the page numbers requested,    *)
(* paging.responses the pages paged_call yielded, paging.buf the items of  *)
(* the page being iterated that were not yielded yet.                      *)

\* Number of pages one listing is asked for.
MaxRequests == 3

\* The page keyword of paged_call.
StartPages == {1, 2}

\* What the server answers to the request for a page: a page of one or of two
\* entries, or an answer that ends the listing.
PagedAnswers ==
    {[kind |-> "json", body |-> [u \in D |-> "d"]] :
        D \in {{"u1"}, {"u1", "u2"}}}
    \cup LastPages

\* for unit_id, data in resp.items(): the entries of a page, in its order.
PageItems(n, body) ==
    LET ks == SelectSeq(UnitIds, LAMBDA u : u \in DOMAIN body)
    IN  [j \in 1..Len(ks) |-> [page |-> n, id |-> ks[j], data |-> body[ks[j]]]]

\* next() on the generator paged_call returns: iter(callable, sentinel) calls
\* self.call(query=dict(query, page=next(page), limit=limit)) and stops when
\* the response equals the sentinel; an exception of call ends the generator.
Client_paged_call_next(p, answer) ==
    IF p.state # "running"
      THEN [p EXCEPT !.res = Raised("StopIteration", NoName)]
      ELSE LET r == Client_call(answer)
               q == [p EXCEPT !.requested = Append(p.requested, p.page),
                              !.page = p.page + 1]
           IN  IF r.res.kind # "ok"
                 THEN [q EXCEPT !.state = "raised", !.res = r.res]
                 ELSE IF r.body = EmptyDict
                   THEN [q EXCEPT !.state = "done",
                                  !.res = Raised("StopIteration", NoName)]
                   ELSE [q EXCEPT !.responses = Append(q.responses, r.body),
                                  !.res = Done]

\* A get_units that asks for the next page as soon as it has yielded the
\* last entry of a page.
Client_get_units_next_eager(p, answer) ==
    LET q == IF p.buf # <<>> THEN p ELSE Client_paged_call_next(p, answer)
        b == IF p.buf # <<>> THEN p.buf
             ELSE IF q.res.kind = "ok"
                    THEN PageItems(Len(q.requested),
                                   q.responses[Len(q.responses)])
                    ELSE <<>>
    IN  IF b = <<>>
          THEN q
          ELSE LET y == [q EXCEPT !.buf = Tail(b),
                                  !.yielded = Append(q.yielded, Head(b)),
                                  !.res = Done]
               IN  IF Tail(b) = <<>> /\ y.state = "running"
                     THEN LET z == Client_paged_call_next(y, answer)
                          IN  IF z.res.kind = "ok"
                                THEN [z EXCEPT !.buf =
                                        PageItems(Len(z.requested),
                                            z.responses[Len(z.responses)])]
                                ELSE [z EXCEPT !.res = Done]
                     ELSE y

\* next() on the generator get_units returns: the next entry of the page
\* being iterated is yielded; when there is none left, the outer loop asks
\* paged_call for the next page and the first entry of it is yielded.
Client_get_units_next(p, answer) ==
    IF p.buf # <<>>
      THEN [p EXCEPT !.buf = Tail(p.buf),
                     !.yielded = Append(p.yielded, Head(p.buf)),
                     !.res = Done]
      ELSE LET q == Client_paged_call_next(p, answer)
           IN  IF q.res.kind # "ok"
                 THEN q
                 ELSE LET b == PageItems(Len(q.requested),
                                         q.responses[Len(q.responses)])
                      IN  [q EXCEPT !.buf = Tail(b),
                                    !.yielded = Append(q.yielded, Head(b))]

PagingInit ==
    /\ _json \in AliasData
    /\ _changes = EmptyDict
    /\ _client = "client"
    /\ Idle
    /\ FreshInstance
    /\ flatten = NoFlatten
    /\ alias = NoAlias
    /\ race = NoRace
    /\ pair = NoPair
    /\ \E s \in StartPages :
         paging = [on |-> TRUE, start |-> s, page |-> s, requested |-> <<>>,
                   responses |-> <<>>, got |-> <<>>, buf |-> <<>>,
                   yielded |-> <<>>, state |-> "running", res |-> Done,
                   asked |-> "-"]
    /\ promise = NoPromise
    /\ upload = NoUpload
    /\ aggr = NoAggr
    /\ tags = NoTags

PagingFrame ==
    UNCHANGED <<_json, _changes, _client, pc, request, reply, old, last,
                _units, _judgments_aggregates, _dict, flatten, alias,
                race, pair, promise, upload, aggr, tags>>

\* The consumer asks for the next item; answer is what the server answers if
\* a page is requested.  paging.got keeps the answers to the requests made.
PagingAsk ==
    /\ paging.state = "running"
    /\ Len(paging.requested) < MaxRequests
    /\ \E answer \in PagedAnswers :
         LET q == Client_get_units_next(paging, answer)
         IN  paging' = [q EXCEPT
                          !.asked = "next",
                          !.got = IF Len(q.requested) > Len(paging.requested)
                                    THEN Append(paging.got, answer)
                                    ELSE paging.got]
    /\ PagingFrame

\* The consumer asks for the next item of a generator that has ended.
PagingAskEnded ==
    /\ paging.state # "running"
    /\ paging' = [Client_get_units_next(paging, CHOOSE a \in PagedAnswers : TRUE)
                     EXCEPT !.asked = "ended"]
    /\ PagingFrame

PagingNext ==
    \/ PagingAsk
    \/ PagingAskEnded

PagingSpec == PagingInit /\ [][PagingNext]_vars

----------------------------------------------------------------------------
(* Promise (base.py): promise.object is what _object is bound to,          *)
(* promise.fetches counts the calls of _get_object and promise.fetched     *)
(* those that returned; promise.calls keeps how each call ended.           *)

\* Number of calls of _get_object on one promise.
MaxFetches == 3

\* The objects a fetch can return, and the attributes they have.
Objects == {"o1", "o2"}

ObjectAttrs(o) == ("data" :> o) @@ ("state" :> "new")

\* The names read on the promise that normal lookup does not find.
ProxiedItems == {"data", "state", "missing"}

\* What a call of _get_object does: the abstract method raises
\* NotImplementedError, an override returns the object it fetched or raises
\* what the fetch raised.
GetObjectOutcomes ==
    {[kind |-> "returns", obj |-> o] : o \in Objects}
    \cup {[kind |-> e, obj |-> "None"] : e \in {"NotImplementedError", "ApiError"}}

\* getattr(self._object, item)
Object_attr(o, item) ==
    IF item \in DOMAIN ObjectAttrs(o)
      THEN Returned(ObjectAttrs(o)[item])
      ELSE Raised("AttributeError", item)

\* A __getattr__ that fetches on every access and keeps nothing.
Promise_getattr_no_cache(p, item, outcome) ==
    IF outcome.kind # "returns"
      THEN [p EXCEPT !.fetches = p.fetches + 1,
                     !.calls = Append(p.calls, outcome.kind),
                     !.res = Raised(outcome.kind, NoName)]
      ELSE [p EXCEPT !.fetches = p.fetches + 1,
                     !.fetched = p.fetched + 1,
                     !.calls = Append(p.calls, outcome.kind),
                     !.res = Object_attr(outcome.obj, item)]

\* Promise.__getattr__(item): if self._object is None, self._get_object() is
\* called and its result bound to self._object; an exception of it leaves
\* _object as it was.  Then getattr(self._object, item).
Promise_getattr(p, item, outcome) ==
    IF p.object = "None"
      THEN IF outcome.kind # "returns"
             THEN [p EXCEPT !.fetches = p.fetches + 1,
                            !.calls = Append(p.calls, outcome.kind),
                            !.res = Raised(outcome.kind, NoName)]
             ELSE [p EXCEPT !.object = outcome.obj,
                            !.fetches = p.fetches + 1,
                            !.fetched = p.fetched + 1,
                            !.calls = Append(p.calls, outcome.kind),
                     !.calls = Append(p.calls, outcome.kind),
                            !.res = Object_attr(outcome.obj, item)]
      ELSE [p EXCEPT !.res = Object_attr(p.object, item)]

PromiseInit ==
    /\ _json \in AliasData
    /\ _changes = EmptyDict
    /\ _client = "client"
    /\ Idle
    /\ FreshInstance
    /\ flatten = NoFlatten
    /\ alias = NoAlias
    /\ race = NoRace
    /\ pair = NoPair
    /\ paging = NoPaging
    /\ promise = [on |-> TRUE, object |-> "None", fetches |-> 0,
                  fetched |-> 0, calls |-> <<>>, op |-> "-", item |-> NoName, res |-> Done]
    /\ upload = NoUpload
    /\ aggr = NoAggr
    /\ tags = NoTags

PromiseFrame ==
    UNCHANGED <<_json, _changes, _client, pc, request, reply, old, last,
                _units, _judgments_aggregates, _dict, flatten, alias,
                race, pair, paging, upload, aggr, tags>>

\* promise.item for a name normal lookup does not find
PromiseGetAttr(item) ==
    /\ promise.fetches < MaxFetches
    /\ \E outcome \in GetObjectOutcomes :
         promise' = [Promise_getattr(promise, item, outcome)
                        EXCEPT !.op = "getattr", !.item = item]
    /\ PromiseFrame

\* promise._object: normal lookup finds the name, __getattr__ is not called.
PromiseOwnAttr ==
    /\ promise' = [promise EXCEPT !.op = "own", !.item = "_object",
                                  !.res = Returned(promise.object)]
    /\ PromiseFrame

PromiseNext ==
    \/ \E item \in ProxiedItems : PromiseGetAttr(item)
    \/ PromiseOwnAttr

PromiseSpec == PromiseInit /\ [][PromiseNext]_vars

\* C25 as stated: over any sequence of attribute accesses _get_object is
\* called at most once.
C25_FetchedAtMostOnce == promise.fetches <= 1

\* C25: the promise fetches on a proxied access while no object is cached
\* and caches the object the fetch returns; a fetch that raises caches
\* nothing, so the next proxied access fetches again.  _get_object returns
\* at most once, and once it has returned every later access is served from
\* the cached object without a fetch.
C25_FetchReturnsAtMostOnce ==
    /\ [](/\ promise.fetched <= 1
          /\ Len(promise.calls) = promise.fetches
          /\ \A i \in 1..Len(promise.calls) :
                promise.calls[i] = "returns" => i = Len(promise.calls)
          /\ promise.object = "None" <=> promise.fetched = 0)
    /\ [][/\ promise.object # "None" =>
                /\ promise'.object = promise.object
                /\ promise'.fetches = promise.fetches
                /\ promise'.op = "getattr" =>
                      promise'.res = Object_attr(promise.object, promise'.item)
          /\ promise'.fetches # promise.fetches =>
                /\ promise.object = "None"
                /\ promise'.op = "getattr"
                /\ promise'.fetches = promise.fetches + 1
          /\ (promise.object = "None" /\ promise'.op = "getattr") =>
                promise'.fetches = promise.fetches + 1
          /\ (promise.object = "None" /\ promise'.object = "None"
              /\ promise'.op = "getattr") =>
                promise'.res.kind \in {"NotImplementedError", "ApiError"}]_vars

\* After a fetch that raised, a second fetch returned an object, and a later
\* access read an attribute of it.
C25_Witness ==
    /\ promise.fetches = 2
    /\ promise.fetched = 1
    /\ promise.op = "getattr"
    /\ promise.item = "data"
    /\ promise.res = Returned(promise.object)

----------------------------------------------------------------------------
(* Client.upload_job_file(file, type_, job_id, force).  upload.type is the *)
(* local variable type_ once it is resolved, upload.events what the call   *)
(* has done so far, upload.request the remote call it made.                *)

\* A file-like object, or a filename with an extension; a named file may be
\* missing, so that open() raises.
UploadFiles ==
    {[kind |-> "filelike", ext |-> "", exists |-> TRUE]}
    \cup {[kind |-> "name", ext |-> e, exists |-> x] :
             e \in {"csv", "json", "xyz", ""}, x \in BOOLEAN}

\* The values of the argument type_: None, or an explicit type.
UploadTypes == {"None", "text/csv", "application/json", ""}

\* mimetypes.guess_type(file)[0]
Mimetypes_guess_type(file) ==
    CASE file.ext = "csv" -> "text/csv"
      [] file.ext = "json" -> "application/json"
      [] OTHER -> "None"

\* A resolution that prefers the guess to the type given.
Client_upload_type_guess_first(file, type_) ==
    IF file.kind = "name" /\ Mimetypes_guess_type(file) # "None"
      THEN [type |-> Mimetypes_guess_type(file), guessed |-> TRUE]
      ELSE [type |-> type_, guessed |-> file.kind = "name"]

\* upload_job_file lines 371-377: the type is guessed only for a filename
\* (isinstance(file, six.string_types)) and only if type_ is None.
Client_upload_type(file, type_) ==
    IF file.kind = "name" /\ type_ = "None"
      THEN [type |-> Mimetypes_guess_type(file), guessed |-> TRUE]
      ELSE [type |-> type_, guessed |-> FALSE]

\* _upload_job: jobs.upload or jobs[job_id].upload is called with the data,
\* the Content-Type header, method post and the force query.
Client_upload_job(type_, job_id, force) ==
    [method |-> "post", id |-> job_id,
     headers |-> ("Content-Type" :> type_),
     query |-> IF force THEN ("force" :> "true") ELSE EmptyDict]

NoUploadRequest ==
    [method |-> "-", id |-> "None", headers |-> EmptyDict, query |-> EmptyDict]

UploadInit ==
    /\ _json \in AliasData
    /\ _changes = EmptyDict
    /\ _client = "client"
    /\ Idle
    /\ FreshInstance
    /\ flatten = NoFlatten
    /\ alias = NoAlias
    /\ race = NoRace
    /\ pair = NoPair
    /\ paging = NoPaging
    /\ promise = NoPromise
    /\ \E file \in UploadFiles, type_ \in UploadTypes,
          job_id \in {"None", "1"}, force \in BOOLEAN :
         upload = [on |-> TRUE, file |-> file, type_ |-> type_,
                   job_id |-> job_id, force |-> force, pc |-> "start",
                   type |-> "-", events |-> <<>>, res |-> Done,
                   request |-> NoUploadRequest]
    /\ aggr = NoAggr
    /\ tags = NoTags

UploadFrame ==
    UNCHANGED <<_json, _changes, _client, pc, request, reply, old, last,
                _units, _judgments_aggregates, _dict, flatten, alias,
                race, pair, paging, promise, aggr, tags>>

\* Lines 368-380: the type is resolved, and ValueError raised if it is None.
UploadResolve ==
    /\ upload.pc = "start"
    /\ LET t == Client_upload_type(upload.file, upload.type_)
           ev == IF t.guessed THEN <<"guess">> ELSE <<>>
       IN  IF t.type = "None"
             THEN upload' = [upload EXCEPT !.type = t.type, !.events = ev,
                                           !.pc = "done",
                                           !.res = Raised("ValueError", "type")]
             ELSE upload' = [upload EXCEPT !.type = t.type, !.events = ev,
                                           !.pc = "open"]
    /\ UploadFrame

\* Line 382, with context(file) as fp: open(file, mode='rb') for a filename,
\* the object itself for a file-like object.
UploadOpen ==
    /\ upload.pc = "open"
    /\ IF upload.file.kind = "filelike"
         THEN upload' = [upload EXCEPT !.pc = "read"]
         ELSE IF upload.file.exists
           THEN upload' = [upload EXCEPT
                             !.pc = "read",
                             !.events = Append(upload.events, "open")]
           ELSE upload' = [upload EXCEPT
                             !.pc = "done",
                             !.events = Append(upload.events, "open"),
                             !.res = Raised("IOError", NoName)]
    /\ UploadFrame

\* Line 383: fp.read()
UploadRead ==
    /\ upload.pc = "read"
    /\ upload' = [upload EXCEPT !.pc = "request",
                                !.events = Append(upload.events, "read")]
    /\ UploadFrame

\* Line 383: self._upload_job(data, type_, job_id, force=force), and the
\* server's answer.
UploadRequest ==
    /\ upload.pc = "request"
    /\ \E rep \in Replies :
         upload' = [upload EXCEPT
                      !.pc = "done",
                      !.events = Append(upload.events, "request"),
                      !.request = Client_upload_job(upload.type,
                                      upload.job_id, upload.force),
                      !.res = Client_call(rep).res]
    /\ UploadFrame

UploadNext ==
    \/ UploadResolve
    \/ UploadOpen
    \/ UploadRead
    \/ UploadRequest

UploadSpec == UploadInit /\ [][UploadNext]_vars

\* No type was given and none can be guessed for the file.
TypeUnknown ==
    /\ upload.type_ = "None"
    /\ \/ upload.file.kind = "filelike"
       \/ Mimetypes_guess_type(upload.file) = "None"

\* C26: when no type is given and none can be guessed (a file-like object,
\* or a filename with an extension that is not recognised), upload_job_file
\* raises ValueError without having opened or read the file and without a
\* remote call, and it raises that error in no other case; a type given
\* explicitly is the Content-Type of the request, and no guess is made.
C26_TypeUnknownBeforeIO ==
    /\ (TypeUnknown /\ upload.pc # "start") =>
          /\ upload.pc = "done"
          /\ upload.res = Raised("ValueError", "type")
          /\ \A i \in 1..Len(upload.events) : upload.events[i] = "guess"
          /\ upload.request = NoUploadRequest
    /\ upload.res = Raised("ValueError", "type") => TypeUnknown
    /\ (upload.type_ # "None" /\ upload.pc # "start") =>
          /\ upload.type = upload.type_
          /\ \A i \in 1..Len(upload.events) : upload.events[i] # "guess"
          /\ upload.request # NoUploadRequest =>
                upload.request.headers["Content-Type"] = upload.type_
    /\ upload.request # NoUploadRequest =>
          /\ upload.request.headers["Content-Type"] # "None"
          /\ upload.events[Len(upload.events)] = "request"
          /\ upload.events[Len(upload.events) - 1] = "read"

\* The type of a file named with an unrecognised extension could not be
\* guessed, and the call raised.
C26_Witness ==
    /\ upload.pc = "done"
    /\ upload.file.kind = "name"
    /\ upload.file.ext = "xyz"
    /\ upload.type_ = "None"
    /\ upload.events = <<"guess">>
    /\ upload.res = Raised("ValueError", "type")

\* A file named data.json was uploaded as text/csv, the type given.
C26_WitnessExplicit ==
    /\ upload.pc = "done"
    /\ upload.file.ext = "json"
    /\ upload.type_ = "text/csv"
    /\ upload.request # NoUploadRequest
    /\ upload.res = Done

----------------------------------------------------------------------------
(* The order of the steps of Job.update (Spec).                            *)

\* The request is the PUT on the job's id whose data is the flattening
\* under 'job' of the overlay update() started with, and of nothing else.
PutOfOverlay ==
    /\ request.method = "put"
    /\ "id" \in DOMAIN old.json
    /\ request.id = old.json["id"]
    /\ DOMAIN request.data = {CfKey(f) : f \in DOMAIN old.changes}
    /\ \A f \in DOMAIN old.changes : request.data[CfKey(f)] = old.changes[f]
    /\ \A f \in DOMAIN old.json \ DOMAIN old.changes :
          CfKey(f) \notin DOMAIN request.data

\* C27: a successful Job.update() runs its steps in order: the validation of
\* the required fields has passed when the request is made; the request is
\* one PUT on the job's id whose data is the flattening under 'job' of
\* exactly the overlay at that moment; baseline and overlay stay as they
\* were until the response is there; the response is then merged into the
\* baseline, and only after that is the overlay cleared and update() returns.
C27_UpdateStepsInOrder ==
    /\ [](/\ pc \in {"call", "reply", "merged"} =>
                /\ \A order \in Orders :
                      CheckRequired(old.json, old.changes, order) = Done
                /\ PutOfOverlay
                /\ _changes = old.changes
          /\ pc = "call" => reply = NoReply /\ _json = old.json
          /\ pc = "reply" => reply # NoReply /\ _json = old.json
          /\ pc = "merged" =>
                /\ Accepted(reply)
                /\ _json = DictUpdate(old.json, reply.body))
    /\ [][/\ pc' = "call" => pc = "idle"
          /\ pc' = "reply" => pc = "call"
          /\ pc' = "merged" => pc = "reply"
          /\ pc \in {"call", "reply", "merged"} => request' = request
          /\ pc \in {"reply", "merged"} => reply' = reply
          /\ (pc' = "idle" /\ last'.op = "update" /\ last'.res = Done
              /\ pc # "idle") =>
                /\ pc = "merged"
                /\ _json' = _json
                /\ _changes' = EmptyDict]_vars

\* update() returned after a PUT that carried a pending read-write and a
\* pending write-only value, and the response changed the baseline.
C27_Witness ==
    /\ pc = "idle"
    /\ last.op = "update"
    /\ last.res = Done
    /\ DOMAIN request.data = {CfKey("title"), CfKey("uri")}
    /\ _json # old.json
    /\ _changes = EmptyDict

----------------------------------------------------------------------------
(* JudgmentAggregate (judgment.py).  aggr.json is the baseline, whose key  *)
(* '_ids' holds the ids of the judgments; aggr.dict holds the attributes   *)
(* set on the instance besides _client, _json, _changes and job;           *)
(* aggr.judgments is the cache attribute _judgments.                       *)

\* The lists of judgment ids an aggregate is listed with.
IdLists == {<<>>, <<"j1">>, <<"j1", "j2">>}

\* The lists a caller assigns to the instance attribute _ids.
AssignedIds == {<<"j2">>, <<"j1", "j2">>}

\* For each call of get_judgment, whether the request fails.
FetchOutcomes == [1..2 -> {"ok", "ApiError"}]

\* JudgmentAggregate.ids: RoAttribute(name='_ids') reads _json['_ids'].
JudgmentAggregate_ids(json) ==
    IF "_ids" \in DOMAIN json
      THEN Returned(json["_ids"])
      ELSE Raised("KeyError", "_ids")

\* [self._client.get_judgment(self.job, id_) for id_ in ids]: the calls made
\* and the list built, up to the first call that raises.
RECURSIVE Client_get_judgments(_, _, _, _)
Client_get_judgments(ids, outcomes, i, acc) ==
    IF i > Len(ids)
      THEN [res |-> Done, calls |-> ids, list |-> acc]
      ELSE IF outcomes[i] # "ok"
        THEN [res |-> Raised(outcomes[i], NoName),
              calls |-> SubSeq(ids, 1, i), list |-> <<>>]
        ELSE Client_get_judgments(ids, outcomes, i + 1,
                                  Append(acc, [id |-> ids[i]]))

\* JudgmentAggregate.judgments: self._judgments is returned when it is set;
\* on AttributeError the list is built from self._ids, which is looked up as
\* an attribute of the instance (the descriptor is named ids), and only
\* then bound to self._judgments.
JudgmentAggregate_judgments(a, outcomes) ==
    IF a.judgments.set
      THEN [cache |-> a.judgments, res |-> Done, calls |-> <<>>,
            list |-> a.judgments.list]
      ELSE IF "_ids" \notin DOMAIN a.dict
        THEN [cache |-> a.judgments, res |-> Raised("AttributeError", "_ids"),
              calls |-> <<>>, list |-> <<>>]
        ELSE LET f == Client_get_judgments(a.dict["_ids"], outcomes, 1, <<>>)
             IN  IF f.res.kind # "ok"
                   THEN [cache |-> a.judgments, res |-> f.res,
                         calls |-> f.calls, list |-> <<>>]
                   ELSE [cache |-> [set |-> TRUE, list |-> f.list],
                         res |-> Done, calls |-> f.calls, list |-> f.list]

AggrInit ==
    /\ _json \in AliasData
    /\ _changes = EmptyDict
    /\ _client = "client"
    /\ Idle
    /\ FreshInstance
    /\ flatten = NoFlatten
    /\ alias = NoAlias
    /\ race = NoRace
    /\ pair = NoPair
    /\ paging = NoPaging
    /\ promise = NoPromise
    /\ upload = NoUpload
    /\ \E ids \in IdLists :
         aggr = [on |-> TRUE, json |-> ("_ids" :> ids), dict |-> EmptyDict,
                 judgments |-> Unset, op |-> "init", res |-> Done,
                 calls |-> <<>>, list |-> <<>>, before |-> Unset,
                 outcomes |-> [i \in 1..2 |-> "ok"]]
    /\ tags = NoTags

AggrFrame ==
    UNCHANGED <<_json, _changes, _client, pc, request, reply, old, last,
                _units, _judgments_aggregates, _dict, flatten, alias,
                race, pair, paging, promise, upload, tags>>

\* aggregate.ids
AggrGetIds ==
    /\ aggr' = [aggr EXCEPT !.op = "ids",
                            !.res = JudgmentAggregate_ids(aggr.json),
                            !.calls = <<>>, !.list = <<>>,
                            !.before = aggr.judgments]
    /\ AggrFrame

\* aggregate._ids = ids: the class defines no _ids, so the value becomes an
\* attribute of the instance.
AggrSetInstanceIds(ids) ==
    /\ aggr' = [aggr EXCEPT !.op = "set",
                            !.dict = Object_setattr(aggr.dict, "_ids", ids).dict,
                            !.res = Done, !.calls = <<>>, !.list = <<>>,
                            !.before = aggr.judgments]
    /\ AggrFrame

\* aggregate.judgments
AggrJudgments ==
    /\ \E outcomes \in FetchOutcomes :
         LET r == JudgmentAggregate_judgments(aggr, outcomes)
         IN  aggr' = [aggr EXCEPT !.op = "judgments", !.judgments = r.cache,
                                  !.res = r.res, !.calls = r.calls,
                                  !.list = r.list, !.before = aggr.judgments,
                                  !.outcomes = outcomes]
    /\ AggrFrame

AggrNext ==
    \/ AggrGetIds
    \/ \E ids \in AssignedIds : AggrSetInstanceIds(ids)
    \/ AggrJudgments

AggrSpec == AggrInit /\ [][AggrNext]_vars

\* C28: an access to judgments made while nothing is cached, and whose
\* requests all succeed, fetches one Judgment for each id of the aggregate's
\* ids, in order, returns the list and caches it; an access made once the
\* list is cached returns it without a remote call.
C28_JudgmentsFetchedPerId ==
    aggr.op = "judgments" =>
        /\ (/\ ~aggr.before.set
            /\ \A i \in 1..Len(aggr.json["_ids"]) : aggr.outcomes[i] = "ok") =>
              /\ aggr.res = Done
              /\ aggr.calls = aggr.json["_ids"]
              /\ aggr.list = [i \in 1..Len(aggr.calls) |-> [id |-> aggr.calls[i]]]
              /\ aggr.judgments = [set |-> TRUE, list |-> aggr.list]
        /\ aggr.before.set =>
              /\ aggr.res = Done
              /\ aggr.calls = <<>>
              /\ aggr.list = aggr.before.list
              /\ aggr.judgments = aggr.before

----------------------------------------------------------------------------
(* What the overlay can hold, and reads of read-only fields (ResourceSpec). *)

\* A read of a read-only field ended.
ReadReadOnly == pc = "idle" /\ last.op = "get" /\ last.name \in RoFields

\* C29 as stated: the keys of the overlay are names of read-write or
\* write-only fields, never of a read-only or undeclared one, and a read of
\* a read-only field always returns the baseline value.
C29_ReadOnlyReturnsBaseline ==
    /\ DOMAIN _changes \subseteq RwFields \cup WoFields
    /\ DOMAIN _changes \cap (RoFields \cup UndeclaredNames) = {}
    /\ ReadReadOnly =>
          /\ last.res.kind = "value"
          /\ last.name \in DOMAIN _json
          /\ last.res.val = _json[last.name]

\* C29: the keys of the overlay are names of read-write or write-only
\* fields, never of a read-only or undeclared one; therefore a read of a
\* read-only field never returns a pending value: by attribute access and by
\* item access it returns the baseline value when the baseline holds the
\* field, and raises KeyError when it does not.
C29_ReadOnlyNeverPending ==
    /\ DOMAIN _changes \subseteq RwFields \cup WoFields
    /\ DOMAIN _changes \cap (RoFields \cup UndeclaredNames) = {}
    /\ \A f \in RoFields :
          LET r == IF f \in DOMAIN _json
                     THEN Returned(_json[f])
                     ELSE Raised("KeyError", f)
          IN  /\ Getattr(_json, _changes, f) = r
              /\ Base_getitem(_json, _changes, f) = r
              /\ (ReadReadOnly /\ last.name = f) => last.res = r

\* A read-only field was read from the baseline while the overlay held a
\* pending write and an undeclared name had been assigned on the instance.
C29_Witness ==
    /\ ReadReadOnly
    /\ last.res.kind = "value"
    /\ _changes # EmptyDict
    /\ DOMAIN _dict \cap UndeclaredNames # {}

----------------------------------------------------------------------------
(* Reads after a successful update() of the fields that were pending, when *)
(* a read-write field that is not required is among them.                  *)

\* A read-write field of Job that update() does not require.
OptionalFields == {"css"}

\* A job as listed by the server, with and without the optional field.
CommitData ==
    {[k \in D |-> "b"] :
        D \in {RequiredFields \cup {"id"},
               RequiredFields \cup {"id"} \cup OptionalFields}}

CommitInit ==
    /\ _json \in CommitData
    /\ _changes = EmptyDict
    /\ _client = "client"
    /\ Idle
    /\ FreshInstance
    /\ flatten = NoFlatten
    /\ alias = NoAlias
    /\ NoMore

\* The fields written and read in CommitSpec.
CommitFields == {"title", "uri"} \cup OptionalFields

CommitNext ==
    \/ \E name \in CommitFields, value \in WriteValues : SetAttr(name, value)
    \/ \E name \in CommitFields : GetAttr(name)
    \/ JobUpdate
    \/ ServerReply
    \/ UpdateMerge
    \/ UpdateClear

CommitSpec == CommitInit /\ [][CommitNext]_vars

\* C30 as stated: after a successful update() every field that was pending
\* reads as the response's value when the response holds the field, and as
\* the baseline value of before the update otherwise.
C30_PendingReadsResponseOrBaseline ==
    UpdateReturned =>
        \A f \in DOMAIN old.changes :
            LET r == Getattr(_json, _changes, f)
            IN  /\ r.kind = "value"
                /\ IF f \in DOMAIN reply.body
                     THEN r.val = reply.body[f]
                     ELSE f \in DOMAIN old.json /\ r.val = old.json[f]

\* C30: after a successful update() a read-write field that was pending
\* reads as the response's value when the response holds the field,
\* otherwise as the baseline value of before the update when the baseline
\* held the field, and raises KeyError when neither holds it; a write-only
\* field that was pending still raises AttributeError on read.  The overlay
\* is empty, so no read takes its value from what was written.
C30_PendingReadWriteReads ==
    UpdateReturned =>
        /\ _changes = EmptyDict
        /\ \A f \in DOMAIN old.changes :
              LET r == Getattr(_json, _changes, f)
              IN  IF f \in WoFields
                    THEN r = Raised("AttributeError", f)
                    ELSE IF f \in DOMAIN reply.body
                      THEN r = Returned(reply.body[f])
                      ELSE IF f \in DOMAIN old.json
                        THEN r = Returned(old.json[f])
                        ELSE r = Raised("KeyError", f)

\* update() returned with three fields having been pending: one the response
\* holds, one only the old baseline holds with another value than the one
\* written, and a write-only one.
C30_Witness ==
    /\ UpdateReturned
    /\ "uri" \in DOMAIN old.changes
    /\ \E f, g \in DOMAIN old.changes \ WoFields :
          /\ f \in DOMAIN reply.body
          /\ reply.body[f] # old.changes[f]
          /\ g \notin DOMAIN reply.body
          /\ g \in DOMAIN old.json
          /\ old.json[g] # old.changes[g]

\* update() returned, and the optional field that was pending is neither in
\* the response nor in the baseline.
C30_WitnessAbsent ==
    /\ UpdateReturned
    /\ \E f \in DOMAIN old.changes \cap OptionalFields :
          f \notin DOMAIN reply.body /\ f \notin DOMAIN _json

----------------------------------------------------------------------------
(* update() of a job whose overlay holds a mapping: flatten.attrs is the   *)
(* overlay, as the insertion-ordered items of _changes; flatten.sent is    *)
(* the overlay handed to update_job by the last update(), flatten.out the  *)
(* data of its request and flatten.res how it ended.                       *)

\* The values written: to options a mapping (empty, flat, or holding an
\* empty mapping), to css a string.
NestedValues ==
    [options |-> {Dict(d) : d \in Nested1 \cup {<< <<"a", Dict(<<>>)>> >>}},
     css |-> Leaves]

NestedInit ==
    /\ flatten = [attrs |-> <<>>, out |-> <<>>, done |-> FALSE,
                  sent |-> <<>>, res |-> Done]
    /\ _json \in AliasData
    /\ _changes = EmptyDict
    /\ _client = "client"
    /\ Idle
    /\ FreshInstance
    /\ alias = NoAlias
    /\ NoMore

\* job.options = value, job.css = value
NestedSetAttr(name, value) ==
    /\ flatten' = [flatten EXCEPT !.attrs = OrderedSet(flatten.attrs, name, value)]
    /\ UNCHANGED <<_json, _changes, _client, pc, request, reply, old, last>>
    /\ UNCHANGED <<_units, _judgments_aggregates, _dict, alias, more>>

\* job.update() with the server's answer: the required fields are read from
\* the baseline, update_job puts _make_cf_attrs('job', changes), and when
\* the call returns line 92 binds an empty overlay.
NestedUpdate ==
    /\ \E order \in Orders, rep \in Replies :
         LET v == CheckRequired(_json, EmptyDict, order)
             data == Client_make_cf_attrs("job", flatten.attrs)
             r == Client_call(rep)
         IN  IF v.kind # "ok"
               THEN flatten' = [flatten EXCEPT !.res = v, !.done = TRUE,
                                               !.sent = <<>>, !.out = <<>>]
               ELSE flatten' = [attrs |-> IF r.res.kind = "ok" THEN <<>>
                                          ELSE flatten.attrs,
                                out |-> data, done |-> TRUE,
                                sent |-> flatten.attrs, res |-> r.res]
    /\ UNCHANGED <<_json, _changes, _client, pc, request, reply, old, last>>
    /\ UNCHANGED <<_units, _judgments_aggregates, _dict, alias, more>>

NestedNext ==
    \/ \E name \in DOMAIN NestedValues :
          \E value \in NestedValues[name] : NestedSetAttr(name, value)
    \/ NestedUpdate

NestedSpec == NestedInit /\ [][NestedNext]_vars

\* The names of the parameters that carry the pending value of a field.
ParamNames(item) ==
    IF item[2].isdict
      THEN {"job" \o Bracketed(<<item[1]>> \o q[1]) :
                q \in LeafPaths(item[2].items)}
      ELSE {"job" \o Bracketed(<<item[1]>>)}

\* C31: every field the overlay holds at update() contributes at least one
\* parameter to the data of the request, so that a successful update clears
\* no pending change that was not transmitted, a field whose pending value
\* is an empty mapping included.
C31_EveryPendingFieldTransmitted ==
    (flatten.done /\ flatten.res = Done) =>
        /\ flatten.attrs = <<>>
        /\ \A i \in 1..Len(flatten.sent) :
              \E j \in 1..Len(flatten.out) :
                  flatten.out[j][1] \in ParamNames(flatten.sent[i])

----------------------------------------------------------------------------
(* A resource whose class provides no _send_changes: Unit (and likewise    *)
(* Judgment, JudgmentAggregate, Order, Worker).                            *)

\* A _send_changes that sends nothing and returns an empty reply.
Base_send_changes_noop(changes) ==
    [res |-> Done, request |-> NoRequest, body |-> EmptyDict]

\* Base._send_changes: the abstract method raises.
Base_send_changes(changes) ==
    [res |-> Raised("NotImplementedError", "_send_changes"),
     request |-> NoRequest, body |-> EmptyDict]

\* Base.update: self._json.update(self._send_changes(self._changes)), then
\* self._changes = {}; an exception of _send_changes ends it before both.
BaseUpdate ==
    /\ pc = "idle"
    /\ old' = Snapshot
    /\ reply' = NoReply
    /\ LET s == Base_send_changes(_changes)
       IN  /\ request' = s.request
           /\ last' = [op |-> "update", name |-> NoName, arg |-> "",
                       res |-> s.res]
           /\ IF s.res.kind # "ok"
                THEN UNCHANGED <<_json, _changes>>
                ELSE /\ _json' = Base_update_merge(_json, s.body)
                     /\ _changes' = Base_update_clear(_changes)
    /\ UNCHANGED <<_client, pc>>
    /\ UNCHANGED ext

\* The data a Unit is constructed from: as listed by the server, or its id.
UnitData ==
    {[k \in D |-> "b"] : D \in {{"id"}, {"id", "state", "data"}}}

UnitInit ==
    /\ _json \in UnitData
    /\ _changes = EmptyDict
    /\ _client \in {"None", "client"}
    /\ Idle
    /\ FreshInstance
    /\ flatten = NoFlatten
    /\ alias = NoAlias
    /\ NoMore

\* Fields of Unit: id is read-only, state and data are read-write.
UnitFields == {"id", "state", "data"}

UnitNext ==
    \/ \E name \in UnitFields, value \in WriteValues : SetAttr(name, value)
    \/ \E name \in UnitFields : GetAttr(name)
    \/ BaseUpdate

UnitSpec == UnitInit /\ [][UnitNext]_vars

\* C32: on a resource whose class provides no _send_changes, update() always
\* raises NotImplementedError, makes no remote call and leaves baseline and
\* overlay as they were; the baseline never changes, and a field once
\* pending stays pending.
C32_UpdateNotImplemented ==
    /\ [](/\ UpdateEnded =>
                /\ last.res = Raised("NotImplementedError", "_send_changes")
                /\ Untouched
          /\ request = NoRequest
          /\ reply = NoReply
          /\ pc = "idle")
    /\ [][/\ _json' = _json
          /\ \A f \in DOMAIN _changes : f \in DOMAIN _changes']_vars

\* update() raised on a unit with two pending writes.
C32_Witness ==
    /\ UpdateEnded
    /\ last.res.kind = "NotImplementedError"
    /\ {"state", "data"} \subseteq DOMAIN _changes

----------------------------------------------------------------------------
(* The tags of a Job (job.py): tags.server is the list of tag names the    *)
(* server holds for the job, tags.cache the attribute _tags.  The client   *)
(* methods get_job_tags, set_job_tags and add_job_tag are not part of      *)
(* client.py; they are modelled by what their callers in job.py expect.    *)

\* Number of tags the server holds for the job.
MaxTags == 3

\* A remote tag call of kind op made with argument arg: get_job_tags
\* returns the tags as dicts with the key 'name', set_job_tags replaces the
\* list, add_job_tag appends to it; a call that fails changes nothing.
Client_tag_call(server, op, arg, outcome) ==
    IF outcome # "ok"
      THEN [res |-> Raised(outcome, NoName), server |-> server, body |-> <<>>]
      ELSE CASE op = "get" ->
                  [res |-> Done, server |-> server,
                   body |-> [i \in 1..Len(server) |-> [name |-> server[i]]]]
             [] op = "set" ->
                  [res |-> Done, server |-> arg, body |-> <<>>]
             [] op = "add" ->
                  [res |-> Done, server |-> Append(server, arg), body |-> <<>>]

\* Job.tags: self._tags when it is set; otherwise self.id is read, the tags
\* are fetched, and their names are bound to self._tags.
Job_tags_get(t, json, changes, outcome) ==
    IF t.cache.set
      THEN [t EXCEPT !.res = Returned(t.cache.list), !.calls = 0]
      ELSE LET i == Getattr(json, changes, "id")
               r == Client_tag_call(t.server, "get", <<>>, outcome)
           IN  IF i.kind # "value"
                 THEN [t EXCEPT !.res = i, !.calls = 0]
                 ELSE IF r.res.kind # "ok"
                   THEN [t EXCEPT !.res = r.res, !.calls = 1]
                   ELSE LET names == [j \in 1..Len(r.body) |-> r.body[j].name]
                        IN  [t EXCEPT !.cache = [set |-> TRUE, list |-> names],
                                      !.res = Returned(names), !.calls = 1]

\* Job.tags = tags: set_job_tags(self.id, tags), then self._tags = tags.
Job_tags_set(t, json, changes, tags_, outcome) ==
    LET i == Getattr(json, changes, "id")
        r == Client_tag_call(t.server, "set", tags_, outcome)
    IN  IF i.kind # "value"
          THEN [t EXCEPT !.res = i, !.calls = 0]
          ELSE IF r.res.kind # "ok"
            THEN [t EXCEPT !.res = r.res, !.calls = 1]
            ELSE [t EXCEPT !.server = r.server,
                           !.cache = [set |-> TRUE, list |-> tags_],
                           !.res = Done, !.calls = 1]

\* Job.add_tag(tag): add_job_tag(self.id, tag), then self._tags.append(tag),
\* or self._tags = [tag] when _tags is not set.
Job_add_tag(t, json, changes, tag, outcome) ==
    LET i == Getattr(json, changes, "id")
        r == Client_tag_call(t.server, "add", tag, outcome)
    IN  IF i.kind # "value"
          THEN [t EXCEPT !.res = i, !.calls = 0]
          ELSE IF r.res.kind # "ok"
            THEN [t EXCEPT !.res = r.res, !.calls = 1]
            ELSE [t EXCEPT !.server = r.server,
                           !.cache = [set |-> TRUE,
                                      list |-> IF t.cache.set
                                                 THEN Append(t.cache.list, tag)
                                                 ELSE <<tag>>],
                           !.res = Done, !.calls = 1]

\* A job the server holds with no tag or with one.
TagsInit ==
    /\ _json \in AliasData
    /\ _changes = EmptyDict
    /\ _client = "client"
    /\ Idle
    /\ FreshInstance
    /\ flatten = NoFlatten
    /\ alias = NoAlias
    /\ race = NoRace
    /\ pair = NoPair
    /\ paging = NoPaging
    /\ promise = NoPromise
    /\ upload = NoUpload
    /\ aggr = NoAggr
    /\ \E server \in {<<>>, <<"t1">>} :
         tags = [on |-> TRUE, server |-> server, cache |-> Unset,
                 before |-> Unset, op |-> "init", res |-> Done, calls |-> 0]

\* One operation on the tags; outcome is how its remote call ends.
TagsOp(op, arg, outcome) ==
    /\ LET t == [tags EXCEPT !.op = op, !.before = tags.cache]
       IN  tags' = CASE op = "get" -> Job_tags_get(t, _json, _changes, outcome)
                     [] op = "set" ->
                          Job_tags_set(t, _json, _changes, arg, outcome)
                     [] op = "add" ->
                          Job_add_tag(t, _json, _changes, arg, outcome)
    /\ UNCHANGED <<_json, _changes, _client, pc, request, reply, old, last,
                   _units, _judgments_aggregates, _dict, flatten, alias,
                   race, pair, paging, promise, upload, aggr>>

TagsNext ==
    \E outcome \in {"ok", "ApiError"} :
        \/ TagsOp("get", <<>>, outcome)
        \/ \E l \in {<<>>, <<"t2">>, <<"t1", "t2">>} : TagsOp("set", l, outcome)
        \/ /\ Len(tags.server) < MaxTags
           /\ \E tag \in {"t1", "t2"} : TagsOp("add", tag, outcome)

TagsSpec == TagsInit /\ [][TagsNext]_vars

\* C33: whenever the tags cache is populated it equals the server's tag list
\* of the job, after any sequence of tags reads, tags assignments and
\* add_tag calls, add_tag before the first read included; a remote tag call
\* that fails leaves the cache as it was.
C33_TagsCacheIsServerList ==
    /\ tags.cache.set => tags.cache.list = tags.server
    /\ tags.res.kind \notin {"ok", "value"} => tags.cache = tags.before

====
